---- MODULE Spec2Model ----
(***************************************************************************)
(* Model of the linkoader extraction engine.                               *)
(*                                                                         *)
(*  Spec      one extract call: main.extract (hard timeout) around one     *)
(*            handler's strategy chain, with off-loaded worker threads.    *)
(*  SpecRate  concurrent stealth_fetch calls through _rate_limit_domain.   *)
(*  SpecFetch one outbound request at a time, by each request path.        *)
(*  SpecRoute ExtractorRouter.resolve applied to a url.                    *)
(*  SpecClassify  classify_ytdlp_error applied to a diagnostic message.    *)
(*  SpecNormalize what each strategy makes of the upstream's answer.       *)
(*  SpecPool  extract calls sharing the executor of asyncio.to_thread.     *)
(*  SpecRegistry  the router under a sequence of calls made of it.         *)
(*  SpecDownload  one proxy_download request: the domain test, the stream. *)
(*                                                                         *)
(* Time in Spec is counted in seconds, in SpecRate in tenths of a second.  *)
(***************************************************************************)
EXTENDS Integers, Sequences, FiniteSets, TLC

VARIABLES
    pc,         \* position of the extract call: "idle", "run", "done"
    handler,    \* the extractor the router resolved ("-" before the call)
    cf,         \* CF_PROXY_URL and CF_PROXY_SECRET are both configured
    hasId,      \* the handler's identifier pattern finds an identifier in the url
    ctype,      \* the content type a Spotify url names ("-" elsewhere)
    cur,        \* index of the strategy the handler is awaiting (0: none)
    phase,      \* sub-step of a YouTube InnerTube strategy: "-", "page", "api"
    client,     \* index into _INNERTUBE_CLIENTS of the running attempt
    startAt,    \* clock value at which strategy cur was invoked
    clock,      \* seconds since main.extract began awaiting the handler
    invoked,    \* the strategies invoked so far, in order
    how,        \* how[k]: the way strategy k left the chain
    produced,   \* <<k, kind>>: permanent kinds raised inside strategy k
    workers,    \* strategies whose to_thread extraction is still executing
    result,     \* what the caller of main.extract received
    hardFired,  \* the wait_for of main.extract timed out
    rnow,       \* SpecRate: time.monotonic(), in tenths of a second
    last,       \* SpecRate: _domain_last_request
    task,       \* SpecRate: each stealth_fetch call's position
    stamps,     \* SpecRate: per host, the last two timestamps recorded
    env,        \* what the process found at import: proxy settings, curl_cffi
    req,        \* SpecFetch: the outbound request being made
    url,        \* SpecRoute: the url handed to resolve
    resolved,   \* SpecRoute: what resolve returned ("?" before the call)
    msg,        \* SpecClassify: str(e), the diagnostic of a DownloadError
    raised,     \* SpecClassify: the kind classify_ytdlp_error raised
    past,       \* SpecClassify: the earlier invocations, <<message, kind>>
    meta,       \* SpecNormalize: what the upstream answered
    media,      \* SpecNormalize: what the strategy made of it
    pool,       \* SpecPool: extract calls sharing the to_thread executor
    router,     \* SpecRegistry: the ExtractorRouter and the calls made of it
    dl          \* SpecDownload: one proxy_download request

callVars == <<pc, handler, hasId, ctype, cf, cur, phase, client, startAt, clock, invoked,
              how, produced, workers, result, hardFired>>
rateVars == <<rnow, last, task, stamps>>
netVars == <<env, req>>
routeVars == <<url, resolved>>
classVars == <<msg, raised, past>>
normVars == <<meta, media>>
offCall == <<rateVars, netVars, routeVars, classVars, normVars, pool, router, dl>>
offRate == <<callVars, netVars, routeVars, classVars, normVars, pool, router, dl>>
vars == <<pc, handler, hasId, ctype, cf, cur, phase, client, startAt, clock, invoked,
          how, produced, workers, result, hardFired,
          rnow, last, task, stamps, env, req, url, resolved, msg, raised,
          past, meta, media, pool, router, dl>>

----------------------------------------------------------------------------
(* Error kinds (exceptions.py) and strategy outcomes.                      *)

Permanent == {"not_found", "age_restricted", "login_required", "geo_blocked"}

\* classify_ytdlp_error always raises one of these (base.py:106-131); a
\* DownloadError is what reaches it.
ClassifierKinds ==
    {"not_found", "age_restricted", "login_required", "upstream_error",
     "extraction_failed"}

\* What a yt-dlp _extract_sync can end with: the info dict (with or without
\* a "url" key), ContentNotFoundError for info None, a classified
\* DownloadError, or any other exception of the library.
YtdlpOutcomes == {"ok", "bad_info", "exception"} \cup ClassifierKinds

\* Instagram classifies by itself (instagram.py:74-88): no age rule.
InstagramYtdlpOutcomes ==
    {"ok", "bad_info", "exception", "not_found", "login_required",
     "upstream_error", "extraction_failed"}

\* _player_response_to_media (youtube.py:329-403).
PlayerOutcomes == {"ok", "none", "not_found", "age_restricted", "exception"}

\* og:meta scraping (instagram.py:90-133, threads.py:90-140,
\* pinterest.py:37-80).
ScrapeOutcomes == {"ok", "not_found", "upstream_error", "exception"}

Handlers ==
    {"youtube", "reddit", "dailymotion", "instagram", "threads", "twitter",
     "linkedin", "tiktok", "snapchat", "twitch", "facebook", "pinterest",
     "spotify"}

EXTRACT_TIMEOUT == 25
NumClients == 4

NumStrategies(h) ==
    CASE h = "youtube" -> 3
      [] h \in {"reddit", "dailymotion", "instagram", "threads"} -> 2
      [] OTHER -> 1

\* The timeout= argument of each strategy's asyncio.wait_for.
SoftTimeout(h, k) ==
    CASE h = "youtube" /\ k = 1 -> 15
      [] h = "youtube" /\ k = 2 -> 12
      [] h = "youtube" /\ k = 3 -> 10
      [] h \in {"instagram", "threads"} /\ k = 2 -> 15
      [] h = "pinterest" -> 20
      [] OTHER -> 30

\* The strategy's blocking work runs in asyncio.to_thread.
Offloaded(h, k) ==
    \/ h \in {"youtube", "instagram", "threads", "twitter", "linkedin",
              "tiktok", "snapchat", "twitch", "facebook"} /\ k = 1
    \/ h \in {"reddit", "dailymotion"} /\ k = 2

\* The sub-stepped strategies: _extract_via_proxy, _extract_innertube_stealth.
SubStepped(h, k) == h = "youtube" /\ k \in {2, 3}

\* What the body of strategy k can end with when it ends in one step.
Outcomes(h, k) ==
    CASE h = "instagram" /\ k = 1 -> InstagramYtdlpOutcomes
      [] Offloaded(h, k) -> YtdlpOutcomes
      [] h = "reddit" ->
            {"ok", "none", "not_found", "login_required", "exception"}
      [] h = "dailymotion" ->
            {"ok", "none", "not_found", "age_restricted", "login_required",
             "exception"}
      [] h = "spotify" -> {"ok", "not_found", "extraction_failed", "exception"}
      [] OTHER -> ScrapeOutcomes

\* Reraise, were UpstreamError left out of every except clause.
ReraiseNoUpstream(h, k) ==
    CASE h = "youtube" /\ k = 3 ->
            {"not_found", "age_restricted", "login_required"}
      [] h = "youtube" -> {"not_found", "age_restricted"}
      [] h \in {"reddit", "instagram", "threads"} /\ k = 1 ->
            {"not_found", "login_required"}
      [] h \in {"instagram", "threads"} -> {"not_found"}
      [] h = "dailymotion" /\ k = 1 ->
            {"not_found", "age_restricted", "login_required"}
      [] h \in {"dailymotion", "tiktok", "facebook"} ->
            {"not_found", "extraction_failed", "age_restricted",
             "login_required"}
      [] h = "pinterest" -> {"not_found", "extraction_failed"}
      [] h = "spotify" -> {"not_found"}
      [] OTHER -> {"not_found", "extraction_failed", "login_required"}

\* The exception classes the handler's except clause re-raises.
Reraise(h, k) ==
    CASE h = "youtube" /\ k \in {1, 2} -> {"not_found", "age_restricted"}
      [] h = "youtube" /\ k = 3 ->
            {"not_found", "age_restricted", "login_required"}
      [] h = "reddit" /\ k = 1 -> {"not_found", "login_required"}
      [] h = "reddit" /\ k = 2 ->
            {"not_found", "upstream_error", "extraction_failed",
             "login_required"}
      [] h = "dailymotion" /\ k = 1 ->
            {"not_found", "age_restricted", "login_required"}
      [] h = "dailymotion" /\ k = 2 ->
            {"not_found", "upstream_error", "extraction_failed",
             "age_restricted", "login_required"}
      [] h \in {"instagram", "threads"} /\ k = 1 ->
            {"not_found", "login_required"}
      [] h \in {"instagram", "threads"} /\ k = 2 ->
            {"not_found", "upstream_error"}
      [] h \in {"twitter", "linkedin", "snapchat", "twitch"} ->
            {"not_found", "upstream_error", "extraction_failed",
             "login_required"}
      [] h \in {"tiktok", "facebook"} ->
            {"not_found", "upstream_error", "extraction_failed",
             "age_restricted", "login_required"}
      [] h = "pinterest" ->
            {"not_found", "upstream_error", "extraction_failed"}
      [] OTHER -> {"not_found"}

\* TimeoutPasses, were every YouTube strategy to pass on its timeout.
TimeoutPassesAllYoutube(h, k) == h = "youtube"

\* except asyncio.TimeoutError: pass (TRUE) or raise ExtractionTimeoutError.
TimeoutPasses(h, k) == h = "youtube" /\ k = 1

\* OtherPasses, were only YouTube to pass on an unclassified exception.
OtherPassesYoutubeOnly(h, k) == h = "youtube"

\* except Exception: pass (TRUE) or raise ExtractionFailedError.
OtherPasses(h, k) ==
    \/ h = "youtube"
    \/ h \in {"reddit", "dailymotion", "instagram", "threads"} /\ k = 1

\* The MediaInfo is built inside the strategy's try block.
NormalizeInTry(h, k) ==
    \/ ~Offloaded(h, k)
    \/ h \in {"youtube", "instagram", "threads"}

\* The strategy the handler turns to after strategy k (0: none is left).
NextStrategy(h, c, k) ==
    CASE h = "youtube" /\ k = 1 -> IF c THEN 2 ELSE 3
      [] k < NumStrategies(h) -> k + 1
      [] OTHER -> 0

\* The handler raises ContentNotFoundError before its first strategy:
\* YouTube when _VIDEO_ID_RE finds no identifier (youtube.py:120-122),
\* Spotify for what is not an episode (spotify.py:28-46).
HasIdCheck(h) == h \in {"youtube", "spotify"}

\* A url the handler's patterns accept can lack what its identifier
\* pattern looks for: "watch?v=" followed by fewer than the eleven
\* characters of _VIDEO_ID_RE, "video/" followed by a dash where
\* _DM_VIDEO_ID_RE wants a word character.  _SPOTIFY_ID_RE finds an
\* identifier in every url the Spotify patterns accept.
IdCanBeMissing(h) == h \in {"youtube", "dailymotion"}

\* The first group of _SPOTIFY_ID_RE (spotify.py:13-15), which every url
\* the Spotify patterns accept names; other handlers have none.
ContentTypes(h) ==
    IF h = "spotify" THEN {"track", "episode", "show", "album", "playlist"}
    ELSE {"-"}

\* Refused, were the page of a show handed to _extract_episode.
RefusedMusicOnly(t) == t \in {"track", "album", "playlist"}

\* SpotifyExtractor.extract raises ContentNotFoundError for the content
\* type (spotify.py:36-46).
Refused(t) == t \in {"track", "album", "playlist"} \/ t = "show"

----------------------------------------------------------------------------
(* The handler's reaction to the way strategy k ended.                     *)

\* Return, were the result computed and not returned.
ReturnFallsThrough(k) == [act |-> "next", kind |-> "-", by |-> k]

Return(k) == [act |-> "return", kind |-> "ok", by |-> k]
Raise(kind, k) == [act |-> "raise", kind |-> kind, by |-> k]
Advance(h, c, k) ==
    IF NextStrategy(h, c, k) # 0
    THEN [act |-> "next", kind |-> "-", by |-> k]
    ELSE Raise("extraction_failed", k)

HandlerOn(h, c, k, o) ==
    CASE o = "ok" -> Return(k)
      [] o = "none" -> Advance(h, c, k)
      [] o = "soft_timeout" ->
            IF TimeoutPasses(h, k) THEN Advance(h, c, k)
            ELSE Raise("timeout", k)
      [] o \in Reraise(h, k) -> Raise(o, k)
      [] o = "bad_info" /\ ~NormalizeInTry(h, k) -> Raise("raw", k)
      [] OTHER ->
            IF OtherPasses(h, k) THEN Advance(h, c, k)
            ELSE Raise("extraction_failed", k)

\* MainKind, were main.extract without its except Exception clause.
MainKindLetsThrough(kind) == kind

\* MainKind, were the exception left to end the call as a result does.
MainKindRawIsResult(kind) == IF kind = "raw" THEN "ok" ELSE kind

\* main.extract: an ExtractionError keeps its error_code, any other
\* exception is answered as extraction_failed.
MainKind(kind) == IF kind = "raw" THEN "extraction_failed" ELSE kind

\* The status_code each ExtractionError subclass passes to its base class
\* (exceptions.py:11-54), by error_code.
StatusCode(kind) ==
    CASE kind \in {"invalid_url", "unsupported_platform"} -> 400
      [] kind = "not_found" -> 404
      [] kind \in {"age_restricted", "geo_blocked", "login_required"} -> 403
      [] kind = "upstream_error" -> 502
      [] kind = "extraction_failed" -> 503
      [] kind = "timeout" -> 504

\* The status of main.extract's answer: 200 for a result, the exception's
\* status_code through extraction_error_handler (main.py:98-103), 500 from
\* the except Exception fallback (main.py:135-143).
MainStatus(kind) ==
    CASE kind = "ok" -> 200
      [] kind = "raw" -> 500
      [] OTHER -> StatusCode(kind)

NoResult == [kind |-> "-", by |-> 0, status |-> 0]

\* Unsupported, were the error raised without the list of platforms.
UnsupportedNoList(names) ==
    [kind |-> "unsupported_platform", by |-> 0,
     status |-> StatusCode("unsupported_platform"), supported |-> <<>>]

\* extraction_error_handler's answer to UnsupportedPlatformError: the body
\* carries "supported" (main.py:98-103).
Unsupported(names) ==
    [kind |-> "unsupported_platform", by |-> 0,
     status |-> StatusCode("unsupported_platform"), supported |-> names]

\* TimedOut, were the hard timeout answered as a failed extraction.
TimedOutAsFailed == [kind |-> "extraction_failed", by |-> 0, status |-> 504]

\* main.extract's answer to asyncio.TimeoutError (main.py:123-132).
TimedOut == [kind |-> "timeout", by |-> 0, status |-> 504]

----------------------------------------------------------------------------
(* The rate limiter's constants (stealth.py:200-215), in tenths of a       *)
(* second, and the bounds of SpecRate.                                     *)

MIN_REQUEST_INTERVAL == 3
JitterMin == 1
JitterMax == 5

MaxTasks == 3
NumHosts == 2
MaxTime == 12

Tasks == 1..MaxTasks
Hosts == 1..NumHosts

IdleTask == [st |-> "idle", host |-> 0, wake |-> 0, rl |-> TRUE]

RateInit ==
    /\ rnow = MIN_REQUEST_INTERVAL
    /\ last = [h \in Hosts |-> 0]
    /\ task = [t \in Tasks |-> IdleTask]
    /\ stamps = [h \in Hosts |-> <<>>]

(* Outbound requests (stealth.py, base.py:8-63).                           *)

\* len(BROWSER_PROFILES).
NumProfiles == 7
Profiles == 1..NumProfiles

\* Headers every profile carries; a header's value is told by where it
\* comes from: profile 1..NumProfiles, or 0 for a string of the caller.
HeaderNames == {"User-Agent", "Accept", "Accept-Language", "Sec-Fetch-Site"}

\* CF_PROXY_URL, CF_PROXY_SECRET non-empty; HAS_CURL_CFFI.
Envs == [url : BOOLEAN, secret : BOOLEAN, curl : BOOLEAN]

IdleReq ==
    [st |-> "idle", path |-> "-", host |-> 0, stamped |-> FALSE,
     route |-> "-", profile |-> 0, hdr |-> [n \in HeaderNames |-> 0],
     tried |-> <<>>, failed |-> {}, to |-> "-", outer |-> {}, inner |-> {}]

\* The variables of the other specifications, at rest.
NetIdle == req = IdleReq
RouteIdle == url = <<>> /\ resolved = "?"
ClassIdle == msg = "" /\ raised = "-" /\ past = <<>>
NoMeta == [path |-> "-"]
NoMedia == [out |-> "-", kind |-> "-", message |-> "", title |-> <<>>,
            url |-> "", height |-> 0, muxed |-> FALSE]
NormIdle == meta = NoMeta /\ media = NoMedia
PoolIdle == pool = [call |-> <<>>, queue |-> <<>>]

CallIdle ==
    /\ pc = "idle"
    /\ handler = "-"
    /\ hasId = TRUE
    /\ ctype = "-"
    /\ cur = 0
    /\ phase = "-"
    /\ client = 0
    /\ startAt = 0
    /\ clock = 0
    /\ invoked = <<>>
    /\ how = [k \in 1..3 |-> "-"]
    /\ produced = {}
    /\ workers = {}
    /\ result = NoResult
    /\ hardFired = FALSE

----------------------------------------------------------------------------
(* Regular expressions of SUPPORTED_PATTERNS.  A url is a sequence of      *)
(* atoms: one punctuation character, a word the patterns spell out, "abc"  *)
(* (some other run of letters), "123" (a run of digits) or "%" (any other  *)
(* character).  A pattern is a sequence of elements.                       *)

Lit(a) == [k |-> "lit", a |-> a, c |-> {}, g |-> <<>>]
Plus(c) == [k |-> "plus", a |-> "", c |-> c, g |-> <<>>]
Star(c) == [k |-> "star", a |-> "", c |-> c, g |-> <<>>]
Opt(g) == [k |-> "opt", a |-> "", c |-> {}, g |-> g]

PatternWords ==
    {"http", "s", "www", "old", "mobile", "com", "dailymotion", "dai", "ly",
     "video", "embed", "facebook", "watch", "v", "videos", "reel", "posts",
     "fb", "share", "instagram", "p", "reels", "stories", "linkedin", "feed",
     "update", "urn", "li", "activity", "ugcPost", "pinterest", "pin", "it",
     "reddit", "r", "comments", "redd", "i", "snapchat", "spotlight", "t",
     "story", "o", "add", "open", "spotify", "track", "episode", "show",
     "album", "playlist", "threads", "net", "post", "tiktok", "vm", "photo",
     "m", "twitch", "tv", "clip", "clips", "twitter", "status", "x", "co",
     "youtube", "shorts", "youtu", "be", "live"}

Punctuation == {":", "/", ".", "?", "=", "@", "-", "%"}

\* The character classes \d, \w, [\w-], [\w.], [\w.-] and the dot.
Digits == {"123"}
Word == PatternWords \cup {"abc", "123"}
WordDash == Word \cup {"-"}
WordDot == Word \cup {"."}
WordDotDash == Word \cup {".", "-"}
AnyChar == Word \cup Punctuation

\* One token of a pattern as written below.
Elem(tok) ==
    CASE tok = "s?" -> Opt(<<Lit("s")>>)
      [] tok = "(www.)?" -> Opt(<<Lit("www"), Lit(".")>>)
      [] tok = "(old.)?" -> Opt(<<Lit("old"), Lit(".")>>)
      [] tok = "(mobile.)?" -> Opt(<<Lit("mobile"), Lit(".")>>)
      [] tok = "([w]+.)?" -> Opt(<<Plus(Word), Lit(".")>>)
      [] tok = "d+" -> Plus(Digits)
      [] tok = "w+" -> Plus(Word)
      [] tok = "[w-]+" -> Plus(WordDash)
      [] tok = "[w.]+" -> Plus(WordDot)
      [] tok = "[w.-]+" -> Plus(WordDotDash)
      [] tok = ".+" -> Plus(AnyChar)
      [] tok = ".*" -> Star(AnyChar)
      [] OTHER -> Lit(tok)

\* The pattern https?:// followed by the tokens of rest.
Re(rest) ==
    LET toks == <<"http", "s?", ":", "/", "/">> \o rest
    IN  [i \in 1..Len(toks) |-> Elem(toks[i])]

RECURSIVE Match(_, _)
\* re.match(p, u): p matches a prefix of u.
Match(p, u) ==
    IF p = <<>> THEN TRUE
    ELSE LET e == Head(p)
             r == Tail(p)
         IN  CASE e.k = "lit" ->
                    IF u = <<>> THEN FALSE
                    ELSE Head(u) = e.a /\ Match(r, Tail(u))
               [] e.k = "opt" -> Match(e.g \o r, u) \/ Match(r, u)
               [] e.k = "plus" ->
                    IF u = <<>> THEN FALSE
                    ELSE /\ Head(u) \in e.c
                         /\ (Match(r, Tail(u)) \/ Match(p, Tail(u)))
               [] OTHER ->
                    \/ Match(r, u)
                    \/ IF u = <<>> THEN FALSE
                       ELSE Head(u) \in e.c /\ Match(p, Tail(u))

\* SUPPORTED_PATTERNS of each handler, in the order of its list.
Patterns(h) ==
    CASE h = "dailymotion" -> <<
            Re(<<"(www.)?", "dailymotion", ".", "com", "/", "video", "/",
                 "[w-]+">>),
            Re(<<"dai", ".", "ly", "/", "[w-]+">>),
            Re(<<"(www.)?", "dailymotion", ".", "com", "/", "embed", "/",
                 "video", "/", "[w-]+">>) >>
      [] h = "facebook" -> <<
            Re(<<"(www.)?", "facebook", ".", "com", "/", "watch", "?", "v",
                 "=", "d+">>),
            Re(<<"(www.)?", "facebook", ".", "com", "/", ".+", "/", "videos",
                 "/", "d+">>),
            Re(<<"(www.)?", "facebook", ".", "com", "/", "reel", "/", "d+">>),
            Re(<<"(www.)?", "facebook", ".", "com", "/", ".+", "/", "posts",
                 "/", ".+">>),
            Re(<<"fb", ".", "watch", "/", "[w-]+">>),
            Re(<<"(www.)?", "facebook", ".", "com", "/", "share", "/", "v",
                 "/", "[w-]+">>) >>
      [] h = "instagram" -> <<
            Re(<<"(www.)?", "instagram", ".", "com", "/", "p", "/", "[w-]+">>),
            Re(<<"(www.)?", "instagram", ".", "com", "/", "reel", "/",
                 "[w-]+">>),
            Re(<<"(www.)?", "instagram", ".", "com", "/", "reels", "/",
                 "[w-]+">>),
            Re(<<"(www.)?", "instagram", ".", "com", "/", "stories", "/",
                 "[w-]+", "/", "d+">>) >>
      [] h = "linkedin" -> <<
            Re(<<"(www.)?", "linkedin", ".", "com", "/", "posts", "/",
                 "[w-]+">>),
            Re(<<"(www.)?", "linkedin", ".", "com", "/", "feed", "/",
                 "update", "/", "urn", ":", "li", ":", "activity", ":",
                 "d+">>),
            Re(<<"(www.)?", "linkedin", ".", "com", "/", "video", "/",
                 "[w-]+">>),
            Re(<<"(www.)?", "linkedin", ".", "com", "/", "embed", "/", "feed",
                 "/", "update", "/", "urn", ":", "li", ":", "ugcPost", ":",
                 "d+">>) >>
      [] h = "pinterest" -> <<
            Re(<<"(www.)?", "pinterest", ".", "com", "/", "pin", "/",
                 "[w-]+">>),
            Re(<<"([w]+.)?", "pinterest", ".", "com", "/", "pin", "/",
                 "[w-]+">>),
            Re(<<"pin", ".", "it", "/", "[w-]+">>) >>
      [] h = "reddit" -> <<
            Re(<<"(www.)?", "reddit", ".", "com", "/", "r", "/", "w+", "/",
                 "comments", "/", "[w-]+">>),
            Re(<<"(old.)?", "reddit", ".", "com", "/", "r", "/", "w+", "/",
                 "comments", "/", "[w-]+">>),
            Re(<<"redd", ".", "it", "/", "[w-]+">>),
            Re(<<"(www.)?", "reddit", ".", "com", "/", "r", "/", "w+", "/",
                 "s", "/", "[w-]+">>),
            Re(<<"v", ".", "redd", ".", "it", "/", "[w-]+">>),
            Re(<<"i", ".", "redd", ".", "it", "/", "[w-]+">>) >>
      [] h = "snapchat" -> <<
            Re(<<"(www.)?", "snapchat", ".", "com", "/", "spotlight", "/",
                 "[w-]+">>),
            Re(<<"(www.)?", "snapchat", ".", "com", "/", "t", "/", "[w-]+">>),
            Re(<<"story", ".", "snapchat", ".", "com", "/", "s", "/",
                 "[w-]+">>),
            Re(<<"story", ".", "snapchat", ".", "com", "/", "o", "/",
                 "[w-]+">>),
            Re(<<"(www.)?", "snapchat", ".", "com", "/", "add", "/",
                 "[w.-]+", "/", "[w-]+">>) >>
      [] h = "spotify" -> <<
            Re(<<"open", ".", "spotify", ".", "com", "/", "track", "/",
                 "[w-]+">>),
            Re(<<"open", ".", "spotify", ".", "com", "/", "episode", "/",
                 "[w-]+">>),
            Re(<<"open", ".", "spotify", ".", "com", "/", "show", "/",
                 "[w-]+">>),
            Re(<<"open", ".", "spotify", ".", "com", "/", "album", "/",
                 "[w-]+">>),
            Re(<<"open", ".", "spotify", ".", "com", "/", "playlist", "/",
                 "[w-]+">>) >>
      [] h = "threads" -> <<
            Re(<<"(www.)?", "threads", ".", "net", "/", "@", "[w.]+", "/",
                 "post", "/", "[w-]+">>),
            Re(<<"(www.)?", "threads", ".", "net", "/", "t", "/", "[w-]+">>) >>
      [] h = "tiktok" -> <<
            Re(<<"(www.)?", "tiktok", ".", "com", "/", "@", "[w.-]+", "/",
                 "video", "/", "d+">>),
            Re(<<"(www.)?", "tiktok", ".", "com", "/", "t", "/", "[w-]+">>),
            Re(<<"vm", ".", "tiktok", ".", "com", "/", "[w-]+">>),
            Re(<<"(www.)?", "tiktok", ".", "com", "/", "@", "[w.-]+", "/",
                 "photo", "/", "d+">>),
            Re(<<"m", ".", "tiktok", ".", "com", "/", "v", "/", "d+">>) >>
      [] h = "twitch" -> <<
            Re(<<"(www.)?", "twitch", ".", "tv", "/", "w+", "/", "clip", "/",
                 "[w-]+">>),
            Re(<<"clips", ".", "twitch", ".", "tv", "/", "[w-]+">>),
            Re(<<"(www.)?", "twitch", ".", "tv", "/", "videos", "/", "d+">>),
            Re(<<"(www.)?", "twitch", ".", "tv", "/", "w+", "/", "video", "/",
                 "d+">>) >>
      [] h = "twitter" -> <<
            Re(<<"(www.)?", "twitter", ".", "com", "/", "w+", "/", "status",
                 "/", "d+">>),
            Re(<<"(www.)?", "x", ".", "com", "/", "w+", "/", "status", "/",
                 "d+">>),
            Re(<<"t", ".", "co", "/", "[w-]+">>),
            Re(<<"(mobile.)?", "twitter", ".", "com", "/", "w+", "/",
                 "status", "/", "d+">>) >>
      [] OTHER -> <<
            Re(<<"(www.)?", "youtube", ".", "com", "/", "watch", "?", "v",
                 "=", "[w-]+">>),
            Re(<<"(www.)?", "youtube", ".", "com", "/", "shorts", "/",
                 "[w-]+">>),
            Re(<<"youtu", ".", "be", "/", "[w-]+">>),
            Re(<<"(www.)?", "youtube", ".", "com", "/", "watch", "?", ".*",
                 "v", "=", "[w-]+">>),
            Re(<<"(www.)?", "youtube", ".", "com", "/", "live", "/",
                 "[w-]+">>) >>

\* ExtractorRouter._discover: pkgutil.iter_modules lists the modules of
\* the package by name, and each module defines one extractor class.
Registered ==
    <<"dailymotion", "facebook", "instagram", "linkedin", "pinterest",
      "reddit", "snapchat", "spotify", "threads", "tiktok", "twitch",
      "twitter", "youtube">>

PatternTable == [h \in Handlers |-> Patterns(h)]

\* The router as ExtractorRouter.__init__ leaves it, no call made of it.
RouterIdle == router = [extractors |-> Registered, log |-> <<>>]
NoDownload == [st |-> "-", host |-> "", n |-> 0, via |-> "-", pos |-> 0,
               sent |-> <<>>]
DlIdle == dl = NoDownload

\* Matches, were the pattern searched for anywhere in the url.
MatchesAnywhere(h, u) ==
    \E i \in 1..Len(PatternTable[h]), j \in 1..(Len(u) + 1) :
        Match(PatternTable[h][i], SubSeq(u, j, Len(u)))

\* BaseExtractor.matches.
Matches(h, u) ==
    \E i \in 1..Len(PatternTable[h]) : Match(PatternTable[h][i], u)

\* FirstMatch, were the loop to return None at the first handler that
\* does not match.
FirstMatchOrGiveUp(i, u) ==
    IF i > Len(Registered) \/ ~Matches(Registered[i], u) THEN "none"
    ELSE Registered[i]

RECURSIVE FirstMatch(_, _)
\* The loop of ExtractorRouter.resolve, from the i-th handler on.
FirstMatch(i, u) ==
    IF i > Len(Registered) THEN "none"
    ELSE IF Matches(Registered[i], u) THEN Registered[i]
    ELSE FirstMatch(i + 1, u)

RECURSIVE Instance(_, _)
\* A url pattern p matches: each class stands by one atom of it, and the
\* optional groups are there or not as o tells.
Instance(p, o) ==
    IF p = <<>> THEN <<>>
    ELSE LET e == Head(p)
         IN  (CASE e.k = "lit" -> <<e.a>>
                [] e.k = "opt" -> IF o THEN Instance(e.g, o) ELSE <<>>
                [] e.k = "plus" -> <<IF "abc" \in e.c THEN "abc" ELSE "123">>
                [] OTHER -> <<>>)
             \o Instance(Tail(p), o)

----------------------------------------------------------------------------
(* One extract call.                                                       *)

Init ==
    /\ CallIdle
    /\ cf \in BOOLEAN
    /\ RateInit
    /\ env = [url |-> cf, secret |-> cf, curl |-> TRUE]
    /\ NetIdle
    /\ RouteIdle
    /\ ClassIdle
    /\ NormIdle
    /\ PoolIdle
    /\ RouterIdle
    /\ DlIdle

\* The handler invokes strategy k at the present clock value.
Invoke(h, k, w) ==
    /\ cur' = k
    /\ startAt' = clock
    /\ invoked' = Append(invoked, k)
    /\ phase' = IF SubStepped(h, k) THEN "page" ELSE "-"
    /\ client' = 0
    /\ workers' = IF Offloaded(h, k) THEN w \cup {k} ELSE w

\* The call is over: the caller receives r.
Finish(r) ==
    /\ pc' = "done"
    /\ result' = r
    /\ cur' = 0
    /\ phase' = "-"
    /\ client' = 0
    /\ UNCHANGED <<startAt, invoked>>

\* main.extract: router.resolve found handler h; its extract is awaited
\* under wait_for(EXTRACT_TIMEOUT).  The handlers that parse an identifier
\* raise ContentNotFoundError before their first strategy.
StartCall(h, idOk, t) ==
    /\ pc = "idle"
    /\ handler' = h
    /\ hasId' = (idOk \/ ~IdCanBeMissing(h))
    /\ ctype' = t
    /\ IF HasIdCheck(h) /\ (IF h = "spotify" THEN Refused(t) ELSE ~idOk)
       THEN /\ Finish([kind |-> "not_found", by |-> 0,
                            status |-> MainStatus("not_found")])
            /\ UNCHANGED <<workers, how>>
       ELSE IF h = "dailymotion" /\ ~idOk
       THEN \* _extract_direct returns None at once: strategy 2 is next
            /\ pc' = "run"
            /\ cur' = 2
            /\ startAt' = clock
            /\ invoked' = <<1, 2>>
            /\ how' = [how EXCEPT ![1] = "none"]
            /\ workers' = {2}
            /\ UNCHANGED <<phase, client, result>>
       ELSE /\ pc' = "run"
            /\ Invoke(h, 1, workers)
            /\ UNCHANGED <<result, how>>
    /\ UNCHANGED <<cf, clock, produced, hardFired, offCall>>

\* router.supported_platforms: the platform_name of each registered
\* handler, which is the name the handler goes by here.
SupportedPlatforms == [i \in 1..Len(Registered) |-> Registered[i]]

\* Urls of requests: one YouTube's first pattern matches, then the same
\* after other text, with its host changed, and cut short.
SampleUrls ==
    LET u == Instance(PatternTable["youtube"][1], TRUE)
    IN  {u, <<"abc", "?", "abc", "=">> \o u, [u EXCEPT ![6] = "abc"],
         SubSeq(u, 1, 10)}

\* main.extract: router.resolve(url) is None; UnsupportedPlatformError is
\* raised before any handler is awaited.
NoHandler(u) ==
    /\ pc = "idle"
    /\ FirstMatch(1, u) = "none"
    /\ Finish(Unsupported(SupportedPlatforms))
    /\ UNCHANGED <<handler, hasId, ctype, cf, clock, how, produced, workers, hardFired,
                   offCall>>

\* Strategy cur left the chain with o; w is the set of live workers.
EndStrategy(o, w, prod) ==
    LET r == HandlerOn(handler, cf, cur, o)
    IN  /\ how' = [how EXCEPT ![cur] = o]
        /\ produced' =
              IF o \in Permanent THEN prod \cup {<<cur, o>>} ELSE prod
        /\ IF r.act = "next"
           THEN /\ Invoke(handler, NextStrategy(handler, cf, cur), w)
                /\ UNCHANGED <<pc, result>>
           ELSE /\ Finish([kind |-> MainKind(r.kind),
                           by |-> IF r.act = "return" THEN cur ELSE 0,
                           status |-> MainStatus(r.kind)])
                /\ workers' = w
        /\ UNCHANGED <<handler, hasId, ctype, cf, clock, hardFired, offCall>>

\* A strategy awaited on the event loop ends in one step.
NativeDone(o) ==
    /\ pc = "run"
    /\ ~Offloaded(handler, cur)
    /\ ~SubStepped(handler, cur)
    /\ o \in Outcomes(handler, cur)
    /\ EndStrategy(o, workers, produced)

\* The thread of strategy k ends.  Its outcome reaches the handler only
\* while the handler still awaits it; wait_for cancelled the future of an
\* abandoned one, whose outcome is dropped.
WorkerDone(k, o) ==
    /\ k \in workers
    /\ o \in Outcomes(handler, k)
    /\ IF pc = "run" /\ cur = k
       THEN EndStrategy(o, workers \ {k}, produced)
       ELSE /\ workers' = workers \ {k}
            /\ UNCHANGED <<pc, handler, hasId, ctype, cf, cur, phase, client, startAt,
                           clock, invoked, how, produced, result, hardFired,
                           offCall>>

\* Step 1 of _extract_via_proxy and of _extract_innertube_stealth: the
\* watch page.  Whatever the inline player response raises is swallowed.
YtPageDone(fetchOk, gotVisitor, inline) ==
    /\ pc = "run"
    /\ SubStepped(handler, cur)
    /\ phase = "page"
    /\ inline \in PlayerOutcomes \cup {"absent"}
    /\ ~fetchOk => (inline = "absent" /\ ~gotVisitor)
    /\ LET prod == IF inline \in Permanent
                   THEN produced \cup {<<cur, inline>>} ELSE produced
       IN  IF inline = "ok"
           THEN EndStrategy("ok", workers, prod)
           ELSE IF cur = 2 /\ ~gotVisitor
           THEN EndStrategy("none", workers, prod)
           ELSE /\ phase' = "api"
                /\ client' = IF cur = 3 THEN 1 ELSE 0
                /\ produced' = prod
                /\ UNCHANGED <<pc, handler, hasId, ctype, cf, cur, startAt, clock, invoked,
                               how, workers, result, hardFired, offCall>>

\* Step 2 of _extract_via_proxy: one InnerTube call through the proxy.
YtProxyApiDone(o) ==
    /\ pc = "run"
    /\ handler = "youtube"
    /\ cur = 2
    /\ phase = "api"
    /\ o \in PlayerOutcomes
    /\ EndStrategy(o, workers, produced)

\* Step 2 of _extract_innertube_stealth: one client of _INNERTUBE_CLIENTS.
YtClientDone(o) ==
    /\ pc = "run"
    /\ handler = "youtube"
    /\ cur = 3
    /\ phase = "api"
    /\ o \in PlayerOutcomes
    /\ IF o \in {"ok", "not_found", "age_restricted"}
       THEN EndStrategy(o, workers, produced)
       ELSE IF client < NumClients
       THEN /\ client' = client + 1
            /\ UNCHANGED <<pc, handler, hasId, ctype, cf, cur, phase, startAt, clock,
                           invoked, how, produced, workers, result,
                           hardFired, offCall>>
       ELSE EndStrategy("none", workers, produced)

\* The strategy's own wait_for times out: a coroutine is cancelled, a
\* worker thread keeps running.
SoftTimeoutFires ==
    /\ pc = "run"
    /\ clock = startAt + SoftTimeout(handler, cur)
    /\ EndStrategy("soft_timeout", workers, produced)

\* The wait_for of main.extract times out and cancels the handler.
HardTimeoutFires ==
    /\ pc = "run"
    /\ clock = EXTRACT_TIMEOUT
    /\ how' = [how EXCEPT ![cur] = "cancelled"]
    /\ hardFired' = TRUE
    /\ Finish(TimedOut)
    /\ UNCHANGED <<handler, hasId, ctype, cf, clock, produced, workers, offCall>>

Tick ==
    /\ pc = "run"
    /\ clock < EXTRACT_TIMEOUT
    /\ clock < startAt + SoftTimeout(handler, cur)
    /\ clock' = clock + 1
    /\ UNCHANGED <<pc, handler, hasId, ctype, cf, cur, phase, client, startAt, invoked,
                   how, produced, workers, result, hardFired, offCall>>

Next ==
    \/ \E h \in Handlers, idOk \in BOOLEAN :
          \E t \in ContentTypes(h) : StartCall(h, idOk, t)
    \/ \E u \in SampleUrls : NoHandler(u)
    \/ \E o \in YtdlpOutcomes \cup ScrapeOutcomes \cup {"none"} : NativeDone(o)
    \/ \E k \in 1..3, o \in YtdlpOutcomes : WorkerDone(k, o)
    \/ \E f, v \in BOOLEAN, i \in PlayerOutcomes \cup {"absent"} :
          YtPageDone(f, v, i)
    \/ \E o \in PlayerOutcomes : YtProxyApiDone(o)
    \/ \E o \in PlayerOutcomes : YtClientDone(o)
    \/ SoftTimeoutFires
    \/ HardTimeoutFires
    \/ Tick

Spec == Init /\ [][Next]_vars

\* Time passes and the event loop runs the timers that are due: the
\* wait_for of each strategy and the wait_for of main.extract.  Nothing is
\* assumed of the upstream: no strategy need ever end by itself.
SpecLive ==
    /\ Spec
    /\ WF_vars(Tick)
    /\ WF_vars(SoftTimeoutFires)
    /\ WF_vars(HardTimeoutFires)

----------------------------------------------------------------------------
(* Concurrent stealth_fetch calls (stealth.py:205-236).  A call that does  *)
(* not sleep runs from its read to its write without an await; a call     *)
(* that sleeps writes when it wakes, whatever was written meanwhile.       *)

\* The last two of a host's recorded timestamps are kept.
LastTwo(s) == IF Len(s) > 2 THEN Tail(s) ELSE s

\* Domain, were every url filed under one key.
DomainOneKey(h) == 1

\* The key of _domain_last_request: urlparse(url).hostname.
Domain(h) == h

\* Limited, were the delay applied whatever rate_limit says.
LimitedAlways(rl) == TRUE

\* stealth_fetch: if rate_limit: await _rate_limit_domain(url).
Limited(rl) == rl

Record(h) ==
    /\ last' = [last EXCEPT ![Domain(h)] = rnow]
    /\ stamps' = [stamps EXCEPT ![h] = LastTwo(Append(@, rnow))]

\* Calls and hosts are numbered in the order of their first appearance.
InOrder(t, h) ==
    /\ IF t = 1 THEN TRUE ELSE task[t - 1].st # "idle"
    /\ IF h = 1 THEN TRUE ELSE \E u \in Tasks : task[u].host = h - 1

\* stealth_fetch(url, rate_limit=rl) begins, for a url of host h.
FetchEnter(t, h, rl, jitter) ==
    /\ task[t].st = "idle"
    /\ InOrder(t, h)
    /\ IF ~Limited(rl)
       THEN /\ task' = [task EXCEPT ![t] =
                          [st |-> "sent", host |-> h, wake |-> 0, rl |-> rl]]
            /\ UNCHANGED <<last, stamps>>
       ELSE LET elapsed == rnow - last[Domain(h)]
            IN  IF elapsed < MIN_REQUEST_INTERVAL
                THEN /\ task' = [task EXCEPT ![t] =
                          [st |-> "sleep", host |-> h,
                           wake |-> rnow + (MIN_REQUEST_INTERVAL - elapsed)
                                         + jitter,
                           rl |-> rl]]
                     /\ UNCHANGED <<last, stamps>>
                ELSE /\ task' = [task EXCEPT ![t] =
                          [st |-> "sent", host |-> h, wake |-> 0, rl |-> rl]]
                     /\ Record(h)
    /\ UNCHANGED <<rnow, offRate>>

\* asyncio.sleep(delay) returns: the dispatch time is recorded.
FetchWake(t) ==
    /\ task[t].st = "sleep"
    /\ rnow >= task[t].wake
    /\ task' = [task EXCEPT ![t].st = "sent"]
    /\ Record(task[t].host)
    /\ UNCHANGED <<rnow, offRate>>

RateTick ==
    /\ rnow < MaxTime
    /\ rnow' = rnow + 1
    /\ UNCHANGED <<last, task, stamps, offRate>>

RateNext ==
    \/ \E t \in Tasks, h \in Hosts, rl \in BOOLEAN,
          j \in JitterMin..JitterMax : FetchEnter(t, h, rl, j)
    \/ \E t \in Tasks : FetchWake(t)
    \/ RateTick

SpecRate == Init /\ [][RateNext]_vars

----------------------------------------------------------------------------
(* Outbound requests, one at a time (SpecFetch).  stamped tells whether    *)
(* the request went through _rate_limit_domain, whose effect on the table  *)
(* is the subject of SpecRate.                                             *)

offNet == <<callVars, rateVars, routeVars, classVars, normVars, pool, router, dl>>

\* ProxyRoute, were the endpoint url alone to decide.
ProxyRouteUrlOnly(e, method, hasHeaders, hasBody) ==
    IF e.url THEN "tunnel" ELSE "direct"

\* proxy_fetch: if CF_PROXY_URL and CF_PROXY_SECRET (base.py:36).
ProxyRoute(e, method, hasHeaders, hasBody) ==
    IF e.url /\ e.secret THEN "tunnel" ELSE "direct"

\* stealth_fetch: if HAS_CURL_CFFI (stealth.py:246-256).
FirstTransport(e) == IF e.curl THEN "profile" ELSE "plain"

\* NextTransport, were the safe fingerprint not retried.
NextTransportSkipsFallback(t) ==
    CASE t = "profile" -> "plain"
      [] OTHER -> "-"

\* The except clauses of _fetch_curl_cffi; _fetch_httpx has none.
NextTransport(t) ==
    CASE t = "profile" -> "fallback"
      [] t = "fallback" -> "plain"
      [] OTHER -> "-"

\* merged_headers (stealth.py:239-244): the profile's headers, the two
\* headers set for a referer, then the caller's headers over them.  The
\* caller's User-Agent is a string of its own (q = 0) or the User-Agent of
\* the profile q that get_random_ua picked.
MergedHeaders(p, referer, lang, given, q) ==
    [n \in HeaderNames |->
        CASE n = "User-Agent" /\ given -> q
          [] n = "Accept-Language" /\ lang -> 0
          [] n = "Sec-Fetch-Site" /\ referer -> 0
          [] OTHER -> p]

AtRest == req.st = "idle"

\* The headers of a request to the forwarding endpoint (base.py:46-49,
\* youtube.py:181-184).
ProxyHeaders == {"Content-Type", "X-Proxy-Secret"}

\* OuterHeaders, were the secret added to whatever is sent.
OuterHeadersWithSecret(route, caller) == caller \cup ProxyHeaders

\* The headers of proxy_fetch's own httpx request: those of the endpoint
\* when tunnelled, else the caller's (base.py:45-61).
OuterHeaders(route, caller) ==
    IF route = "tunnel" THEN ProxyHeaders ELSE caller

\* The client follows redirects: every direct request is made with
\* follow_redirects=True or by curl_cffi, which follows by default; the
\* clients posting to the endpoint are made without it (base.py:44,
\* youtube.py:186).
FollowsRedirects(route) == route = "direct"

\* stealth_fetch up to the first transport attempt.
StealthFetch(h, rl, p, referer, lang, given, q) ==
    /\ AtRest
    /\ given \/ q = 0
    /\ req' = [st |-> "try", path |-> "stealth", host |-> h, stamped |-> rl,
               route |-> "direct", profile |-> p,
               hdr |-> MergedHeaders(p, referer, lang, given, q),
               tried |-> <<FirstTransport(env)>>, failed |-> {},
               to |-> "host",
               outer |-> HeaderNames
                            \cup (IF referer THEN {"Referer"} ELSE {}),
               inner |-> {}]
    /\ UNCHANGED <<env, offNet>>

\* proxy_fetch up to its one httpx request: to the forwarding endpoint or
\* to the url itself.  The headers are the caller's.
ProxyFetch(h, method, hasHeaders, hasBody) ==
    /\ AtRest
    /\ LET route == ProxyRoute(env, method, hasHeaders, hasBody)
           caller == IF hasHeaders THEN {"User-Agent"} ELSE {}
       IN  req' = [IdleReq EXCEPT
                     !.st = "try", !.path = "proxy", !.host = h,
                     !.route = route,
                     !.tried = <<"plain">>,
                     !.to = IF route = "tunnel" THEN "endpoint" ELSE "host",
                     !.outer = OuterHeaders(route, caller),
                     !.inner = IF route = "tunnel" THEN caller ELSE {}]
    /\ UNCHANGED <<env, offNet>>

\* A strategy's own httpx.AsyncClient request to the platform
\* (dailymotion.py:83-89).
HttpxRequest(h) ==
    /\ AtRest
    /\ req' = [IdleReq EXCEPT
                 !.st = "try", !.path = "httpx", !.host = h,
                 !.route = "direct", !.tried = <<"plain">>,
                 !.to = "host", !.outer = {"User-Agent", "Referer"}]
    /\ UNCHANGED <<env, offNet>>

\* One of the two posts of _extract_via_proxy to the forwarding endpoint
\* (youtube.py:190-197, :223-241), which YouTubeExtractor.extract reaches
\* only with the endpoint and its secret configured (youtube.py:139).  The
\* headers for the target are get_random_headers' or the IOS client's.
ViaProxyPost(h, step) ==
    /\ AtRest
    /\ env.url /\ env.secret
    /\ req' = [IdleReq EXCEPT
                 !.st = "try", !.path = "viaproxy", !.host = h,
                 !.route = "tunnel", !.tried = <<"plain">>,
                 !.to = "endpoint",
                 !.outer = OuterHeaders("tunnel", {}),
                 !.inner = IF step = 1 THEN HeaderNames
                           ELSE {"User-Agent", "Content-Type", "Origin",
                                 "X-Goog-Visitor-Id"}]
    /\ UNCHANGED <<env, offNet>>

\* The host answers with a redirect to another host and the client
\* follows it, with the same headers.
Redirected ==
    /\ req.st = "try"
    /\ req.to = "host"
    /\ FollowsRedirects(req.route)
    /\ req' = [req EXCEPT !.to = "elsewhere"]
    /\ UNCHANGED <<env, offNet>>

\* The transport being attempted answers (ok) or raises.
TransportDone(ok) ==
    /\ req.st = "try"
    /\ LET t == req.tried[Len(req.tried)]
           n == IF req.path = "stealth" THEN NextTransport(t) ELSE "-"
       IN  req' =
              IF ok THEN [req EXCEPT !.st = "done"]
              ELSE IF n = "-"
              THEN [req EXCEPT !.st = "failed", !.failed = @ \cup {t}]
              ELSE [req EXCEPT !.tried = Append(@, n),
                               !.failed = @ \cup {t},
                               !.to = "host"]
    /\ UNCHANGED <<env, offNet>>

\* The caller has the StealthResponse, the ProxyResponse or the exception.
Handed ==
    /\ req.st \in {"done", "failed"}
    /\ req' = IdleReq
    /\ UNCHANGED <<env, offNet>>

FetchInit ==
    /\ CallIdle
    /\ RateInit
    /\ env \in Envs
    /\ cf = (env.url /\ env.secret)
    /\ NetIdle
    /\ RouteIdle
    /\ ClassIdle
    /\ NormIdle
    /\ PoolIdle
    /\ RouterIdle
    /\ DlIdle

FetchNext ==
    \/ \E h \in Hosts, rl, referer, lang, given \in BOOLEAN,
          p \in Profiles, q \in 0..NumProfiles :
          StealthFetch(h, rl, p, referer, lang, given, q)
    \/ \E h \in Hosts, method \in {"GET", "POST"},
          hasHeaders, hasBody \in BOOLEAN :
          ProxyFetch(h, method, hasHeaders, hasBody)
    \/ \E h \in Hosts : HttpxRequest(h)
    \/ \E h \in Hosts, step \in 1..2 : ViaProxyPost(h, step)
    \/ Redirected
    \/ \E ok \in BOOLEAN : TransportDone(ok)
    \/ Handed

SpecFetch == FetchInit /\ [][FetchNext]_vars

----------------------------------------------------------------------------
(* resolve applied to a url (SpecRoute).  The urls are, for each pattern,  *)
(* a url it matches and the urls one change away from it, bare or with     *)
(* text before or after.                                                   *)

Changes == {"abc", "123", "%", "del"}

\* u with its k-th atom replaced by m or, for "del", left out.
Change(u, k, m) ==
    IF k = 0 THEN u
    ELSE SubSeq(u, 1, k - 1)
         \o (IF m = "del" THEN <<>> ELSE <<m>>)
         \o SubSeq(u, k + 1, Len(u))

Leads == {<<>>, <<"abc", "/", "?", "abc", "=">>}
Tails == {<<>>, <<"/", "abc">>, <<"%">>}

RouteInputs(hs) ==
    UNION {
      UNION {
        LET u == Instance(PatternTable[h][i], o)
        IN  {l \o Change(u, k, m) \o t :
                k \in 0..Len(u), m \in Changes, l \in Leads, t \in Tails}
        : i \in 1..Len(PatternTable[h]), o \in BOOLEAN}
      : h \in hs}

offRoute == <<callVars, rateVars, netVars, classVars, normVars, pool, router, dl>>

RouteInit ==
    /\ CallIdle
    /\ cf = FALSE
    /\ RateInit
    /\ env = [url |-> FALSE, secret |-> FALSE, curl |-> TRUE]
    /\ NetIdle
    /\ url \in RouteInputs(Handlers)
    /\ resolved = "?"
    /\ ClassIdle
    /\ NormIdle
    /\ PoolIdle
    /\ RouterIdle
    /\ DlIdle

\* router.resolve(url).
Resolve ==
    /\ resolved = "?"
    /\ resolved' = FirstMatch(1, url)
    /\ UNCHANGED <<url, offRoute>>

RouteNext == Resolve

SpecRoute == RouteInit /\ [][RouteNext]_vars

----------------------------------------------------------------------------
(* classify_ytdlp_error applied to a diagnostic (SpecClassify).            *)

\* str.lower, one character.
LowerChar(c) ==
    CASE c = "A" -> "a"
      [] c = "B" -> "b"
      [] c = "C" -> "c"
      [] c = "D" -> "d"
      [] c = "E" -> "e"
      [] c = "F" -> "f"
      [] c = "G" -> "g"
      [] c = "H" -> "h"
      [] c = "I" -> "i"
      [] c = "J" -> "j"
      [] c = "K" -> "k"
      [] c = "L" -> "l"
      [] c = "M" -> "m"
      [] c = "N" -> "n"
      [] c = "O" -> "o"
      [] c = "P" -> "p"
      [] c = "Q" -> "q"
      [] c = "R" -> "r"
      [] c = "S" -> "s"
      [] c = "T" -> "t"
      [] c = "U" -> "u"
      [] c = "V" -> "v"
      [] c = "W" -> "w"
      [] c = "X" -> "x"
      [] c = "Y" -> "y"
      [] c = "Z" -> "z"
      [] OTHER -> c

RECURSIVE Lower(_)
\* str.lower.
Lower(m) ==
    IF m = "" THEN ""
    ELSE LowerChar(SubSeq(m, 1, 1)) \o Lower(SubSeq(m, 2, Len(m)))

\* kw in m.
Contains(kw, m) ==
    \E i \in 1..(Len(m) - Len(kw) + 1) : SubSeq(m, i, i + Len(kw) - 1) = kw

\* any(kw in m for kw in kws).
HasAny(kws, m) == \E kw \in kws : Contains(kw, m)

NotFoundKeywords ==
    {"not found", "removed", "private", "unavailable", "does not exist",
     "been deleted", "no video", "no media", "protected", "suspended"}
AgeKeywords == {"age", "mature", "age-restricted"}
LoginKeywords == {"login", "sign in", "authentication", "authenticate"}
NetworkKeywords ==
    {"urlopen error", "timed out", "connection refused",
     "name or service not known", "network is unreachable"}

\* Classify, were its verdict to depend on how many calls came before.
ClassifyEveryOther(m) ==
    IF Len(past) % 2 = 1 THEN "extraction_failed"
    ELSE IF HasAny(NotFoundKeywords, Lower(m)) THEN "not_found"
    ELSE "upstream_error"

\* Classify, were the network rule the first one.
ClassifyNetworkFirst(m) ==
    LET e == Lower(m)
    IN  IF HasAny(NetworkKeywords, e) THEN "upstream_error"
        ELSE IF HasAny(NotFoundKeywords, e) THEN "not_found"
        ELSE IF HasAny(AgeKeywords, e) THEN "age_restricted"
        ELSE IF HasAny(LoginKeywords, e) THEN "login_required"
        ELSE "extraction_failed"

\* classify_ytdlp_error: the kind of the exception it raises.
Classify(m) ==
    LET e == Lower(m)
    IN  IF HasAny(NotFoundKeywords, e) THEN "not_found"
        ELSE IF HasAny(AgeKeywords, e) THEN "age_restricted"
        ELSE IF HasAny(LoginKeywords, e) THEN "login_required"
        ELSE IF HasAny(NetworkKeywords, e) THEN "upstream_error"
        ELSE "extraction_failed"

\* Diagnostics: up to MaxFragments of these sentences, joined by ": ".
MaxFragments == 2

Fragments ==
    {"Private video", "Video unavailable", "HTTP Error 404: Not Found",
     "Sign in to confirm your age", "This content is for mature audiences",
     "Login required", "Not available in your country",
     "urlopen error [Errno 111] Connection refused", "Read timed out",
     "Unable to download webpage", "Unsupported URL",
     "Requested format is not available"}

RECURSIVE Joined(_)
\* The diagnostics made of exactly n sentences.
Joined(n) ==
    IF n = 1 THEN Fragments
    ELSE {a \o ": " \o b : a \in Joined(n - 1), b \in Fragments}

Messages == UNION {Joined(n) : n \in 1..MaxFragments}

offClass == <<callVars, rateVars, netVars, routeVars, normVars, pool, router, dl>>

ClassInit ==
    /\ CallIdle
    /\ cf = FALSE
    /\ RateInit
    /\ env = [url |-> FALSE, secret |-> FALSE, curl |-> TRUE]
    /\ NetIdle
    /\ RouteIdle
    /\ msg \in Messages
    /\ raised = "-"
    /\ past = <<>>
    /\ NormIdle
    /\ PoolIdle
    /\ RouterIdle
    /\ DlIdle

\* classify_ytdlp_error(e) raises.
ClassifyError ==
    /\ raised = "-"
    /\ raised' = Classify(msg)
    /\ UNCHANGED <<msg, past, offClass>>

\* The invocations of one process, one after the other: at most MaxCalls
\* before the present one.
MaxCalls == 2

\* Diagnostics of later invocations: one seen before, or one of these.
LaterMessages ==
    {past[i][1] : i \in 1..Len(past)}
        \cup {msg, "Private video", "Read timed out"}

\* Another DownloadError reaches classify_ytdlp_error in the same process.
NextError(m) ==
    /\ raised # "-"
    /\ Len(past) < MaxCalls
    /\ past' = Append(past, <<msg, raised>>)
    /\ msg' = m
    /\ raised' = "-"
    /\ UNCHANGED offClass

ClassNext ==
    \/ ClassifyError
    \/ \E m \in LaterMessages : NextError(m)

SpecClassify == ClassInit /\ [][ClassNext]_vars

----------------------------------------------------------------------------
(* What a strategy makes of the upstream's answer (SpecNormalize).  A      *)
(* title is a sequence of characters, a url a string; a key the answer     *)
(* may lack holds <<>> when absent and <<value>> when present.             *)

\* U+2026, and the three characters linkedin.py:41 appends in its place.
Ellipsis == "U+2026"
LinkedinMarker == <<"U+00E2", "U+20AC", "U+00A6">>

\* t[:n].
Slice(t, n) == SubSeq(t, 1, IF Len(t) < n THEN Len(t) ELSE n)

\* if len(title) > 80: title = title[:77] + marker.
CutTo77(t, marker) == IF Len(t) > 80 THEN Slice(t, 77) \o marker ELSE t

\* The title strategy k of handler h gives its MediaInfo, from the
\* upstream's title t.
NormTitle(h, k, t) ==
    CASE \/ h = "youtube" /\ k = 1
         \/ h = "instagram" /\ k = 1
         \/ h \in {"facebook", "tiktok"} -> t
      [] h = "twitter" ->
            Slice(t, 80) \o (IF Len(t) > 80 THEN <<Ellipsis>> ELSE <<>>)
      [] h = "linkedin" -> CutTo77(t, LinkedinMarker)
      [] \/ h \in {"instagram", "threads"} /\ k = 2
         \/ h \in {"snapchat", "pinterest"} -> Slice(t, 80)
      [] OTHER -> CutTo77(t, <<Ellipsis>>)

\* The answers of a strategy: no result, an exception, a MediaInfo.
None == [NoMedia EXCEPT !.out = "none"]
Failure(kind, message) == [None EXCEPT !.out = "raise", !.kind = kind,
                                       !.message = message]
MediaInfo(title, u, height, muxed) ==
    [None EXCEPT !.out = "ok", !.title = title, !.url = u,
                 !.height = height, !.muxed = muxed]

\* The message each exception class has by default (exceptions.py:11-54).
Message(kind) ==
    CASE kind = "invalid_url" -> "URL format is invalid"
      [] kind = "unsupported_platform" -> "This platform is not supported"
      [] kind = "not_found" -> "Content not found or is private"
      [] kind = "age_restricted" ->
            "This content is age-restricted and requires login"
      [] kind = "geo_blocked" -> "This content is not available in your region"
      [] kind = "login_required" ->
            "This content requires authentication to access"
      [] kind = "upstream_error" -> "Could not reach the platform"
      [] kind = "extraction_failed" -> "Failed to extract content"
      [] kind = "timeout" ->
            "Extraction timed out - the platform may be slow"

\* The strategies that build their MediaInfo from a yt-dlp info dict.
InfoPaths == {<<h, k>> \in Handlers \X (1..3) : Offloaded(h, k)}

\* MediaInfo(..., title=..., download_url=info["url"], ...) of a yt-dlp
\* strategy: a KeyError when the key is absent.
InfoMedia(m) ==
    IF m.url = <<>> THEN Failure("raw", "KeyError")
    ELSE MediaInfo(NormTitle(m.h, m.k, m.title), m.url[1], m.height, TRUE)

\* A rendition of streamingData: muxed tells the list it came in
\* ("formats": TRUE, "adaptiveFormats": FALSE), height is 0 when the key is
\* absent, url is "" when the rendition has none.
HasUrl(f) == f.url # ""
HasUrlAndHeight(f) == f.url # "" /\ f.height # 0

\* PlayerCandidates, were every rendition with a url a candidate.
PlayerCandidatesAnyUrl(formats, adaptive) ==
    SelectSeq(adaptive \o formats, HasUrl)

\* The list best is taken from (youtube.py:361-374).
PlayerCandidates(formats, adaptive) ==
    LET merged == SelectSeq(formats, HasUrl)
        video == SelectSeq(adaptive, HasUrlAndHeight)
    IN  IF merged # <<>> THEN merged
        ELSE IF video # <<>> THEN video
        ELSE SelectSeq(formats \o adaptive, HasUrl)

\* merged.sort(key=height, reverse=True); best = merged[0]: the sort is
\* stable, so best is the first candidate of the greatest height.
Best(c) ==
    c[CHOOSE i \in 1..Len(c) :
        /\ \A j \in 1..Len(c) : c[j].height <= c[i].height
        /\ \A j \in 1..(i - 1) : c[j].height < c[i].height]

\* playability.get("reason", default).
ReasonOr(r, default) == IF r = <<>> THEN default ELSE r[1]

\* _player_response_to_media (youtube.py:329-403).
PlayerMedia(m) ==
    LET c == PlayerCandidates(m.formats, m.adaptive)
    IN  CASE m.status = "LOGIN_REQUIRED" ->
                IF Contains("age", Lower(ReasonOr(m.reason, "")))
                THEN Failure("age_restricted", Message("age_restricted"))
                ELSE None
          [] m.status = "UNPLAYABLE" ->
                Failure("not_found",
                        ReasonOr(m.reason, "Content not available"))
          [] m.status = "ERROR" ->
                LET reason == ReasonOr(m.reason, "")
                IN  IF \/ Contains("not found", Lower(reason))
                       \/ Contains("unavailable", Lower(reason))
                    THEN Failure("not_found", reason)
                    ELSE None
          [] m.status # "OK" -> None
          [] OTHER ->
                IF c = <<>> THEN None
                ELSE MediaInfo(NormTitle("youtube", 2, m.title), Best(c).url,
                               Best(c).height, Best(c).muxed)

RECURSIVE BeforeQuery(_)
\* s.split("?")[0].
BeforeQuery(s) ==
    IF s = "" \/ SubSeq(s, 1, 1) = "?" THEN ""
    ELSE SubSeq(s, 1, 1) \o BeforeQuery(SubSeq(s, 2, Len(s)))

RECURSIVE ReplaceAmp(_)
\* s.replace("&amp;", "&").
ReplaceAmp(s) ==
    IF Len(s) < 5 THEN s
    ELSE IF SubSeq(s, 1, 5) = "&amp;"
    THEN "&" \o ReplaceAmp(SubSeq(s, 6, Len(s)))
    ELSE SubSeq(s, 1, 1) \o ReplaceAmp(SubSeq(s, 2, Len(s)))

\* s.endswith(suffix).
EndsWith(s, suffix) ==
    Len(s) >= Len(suffix)
        /\ SubSeq(s, Len(s) - Len(suffix) + 1, Len(s)) = suffix

ImageSuffixes == {".jpg", ".jpeg", ".png", ".gif", ".webp"}

\* The video branches of RedditExtractor._extract_direct: the url a
\* reddit_video gives, "" when the branch is not taken (reddit.py:130-135,
\* 205-211).
RedditVideoUrl(isVideo, fallback) ==
    IF isVideo /\ fallback # "" THEN <<BeforeQuery(fallback)>> ELSE <<>>

\* RedditExtractor._extract_direct from post_data on (reddit.py:121-226).
RedditMedia(m) ==
    LET title == NormTitle("reddit", 1, m.title)
        own == RedditVideoUrl(m.isVideo, m.fallback)
        cross == RedditVideoUrl(m.crossIsVideo, m.crossFallback)
    IN  IF own # <<>> THEN MediaInfo(title, own[1], m.height, TRUE)
        ELSE IF /\ m.link # ""
                /\ \/ \E x \in ImageSuffixes : EndsWith(m.link, x)
                   \/ Contains("i.redd.it", m.link)
        THEN MediaInfo(title, m.link, 0, TRUE)
        ELSE IF m.gallery # ""
        THEN MediaInfo(title, ReplaceAmp(m.gallery), 0, TRUE)
        ELSE IF cross # <<>> THEN MediaInfo(title, cross[1], m.height, TRUE)
        ELSE Failure("not_found",
                     "This Reddit post doesn't contain downloadable media")

\* The keys of "qualities" in the order the loop visits them, and
\* int(quality_key), 0 for "auto" (dailymotion.py:135, 144-147).
DmKeys == <<"1080", "720", "480", "380", "240", "auto">>
DmHeight(key) ==
    CASE key = "1080" -> 1080
      [] key = "720" -> 720
      [] key = "480" -> 480
      [] key = "380" -> 380
      [] key = "240" -> 240
      [] OTHER -> 0

RECURSIVE DmStreams(_, _)
\* The streams of qualities q from the i-th key on, each with the height
\* of its key, in the order of the two nested loops.
DmStreams(q, i) ==
    IF i > Len(DmKeys) THEN <<>>
    ELSE [j \in 1..Len(q[DmKeys[i]]) |->
            [type |-> q[DmKeys[i]][j].type, url |-> q[DmKeys[i]][j].url,
             height |-> DmHeight(DmKeys[i])]]
         \o DmStreams(q, i + 1)

RECURSIVE DmPickMp4(_, _)
\* The loop of dailymotion.py:135-150 over streams c: best is
\* [url, height], url "" while nothing was picked.
DmPickMp4(c, best) ==
    IF c = <<>> THEN best
    ELSE IF /\ Head(c).url # ""
            /\ Contains("video/mp4", Head(c).type)
            /\ (Head(c).height > best.height \/ best.url = "")
    THEN DmPickMp4(Tail(c), [url |-> Head(c).url, height |-> Head(c).height])
    ELSE DmPickMp4(Tail(c), best)

\* The loop of dailymotion.py:153-160: the url of the first "auto" stream
\* that looks like an HLS manifest, "" when there is none.
DmPickHls(auto) ==
    LET hls == {i \in 1..Len(auto) :
                    \/ Contains("mpegURL", auto[i].type)
                    \/ Contains("m3u8", auto[i].url)}
    IN  IF hls = {} THEN ""
        ELSE auto[CHOOSE i \in hls : \A j \in hls : i <= j].url

\* DailymotionExtractor._extract_direct from data on (dailymotion.py:98-176);
\* m.error holds the title of data["error"].
DailymotionMedia(m) ==
    LET err == Lower(ReasonOr(m.error, ""))
        mp4 == DmPickMp4(DmStreams(m.qualities, 1), [url |-> "", height |-> 0])
        hls == DmPickHls(m.qualities["auto"])
        title == NormTitle("dailymotion", 1, m.title)
    IN  IF m.error # <<>>
        THEN IF Contains("not found", err) \/ Contains("deleted", err)
             THEN Failure("not_found", "Video not found or deleted")
             ELSE IF Contains("age", err) \/ Contains("explicit", err)
             THEN Failure("age_restricted", Message("age_restricted"))
             ELSE IF Contains("private", err) \/ Contains("password", err)
             THEN Failure("login_required", Message("login_required"))
             ELSE None
        ELSE IF \A i \in 1..Len(DmKeys) : m.qualities[DmKeys[i]] = <<>>
        THEN None
        ELSE IF mp4.url # "" THEN MediaInfo(title, mp4.url, mp4.height, TRUE)
        ELSE IF hls # "" THEN MediaInfo(title, hls, 0, FALSE)
        ELSE None

IsDigit(c) == c \in {"0", "1", "2", "3", "4", "5", "6", "7", "8", "9"}

RECURSIVE DigitRun(_)
\* The number of digits s begins with.
DigitRun(s) ==
    IF s # "" /\ IsDigit(SubSeq(s, 1, 1))
    THEN 1 + DigitRun(SubSeq(s, 2, Len(s))) ELSE 0

RECURSIVE OriginalUrl(_)
\* re.sub(r"/\d+x/", "/originals/", url) (pinterest.py:83-85).
OriginalUrl(s) ==
    LET n == DigitRun(SubSeq(s, 2, Len(s)))
    IN  IF s = "" THEN ""
        ELSE IF /\ SubSeq(s, 1, 1) = "/"
                /\ n > 0
                /\ Len(s) >= n + 3
                /\ SubSeq(s, n + 2, n + 3) = "x/"
        THEN "/originals/" \o OriginalUrl(SubSeq(s, n + 4, Len(s)))
        ELSE SubSeq(s, 1, 1) \o OriginalUrl(SubSeq(s, 2, Len(s)))

\* The og:meta strategies (instagram.py:108-133, threads.py:111-140,
\* pinterest.py:55-80): m.video and m.image hold the content of og:video
\* and og:image, "" when the tag or its content is missing.
ScrapeMedia(m) ==
    LET title == NormTitle(m.h, m.k, m.title)
    IN  IF m.video # "" THEN MediaInfo(title, m.video, 0, TRUE)
        ELSE IF m.image # ""
        THEN MediaInfo(title,
                       IF m.h = "pinterest" THEN OriginalUrl(m.image)
                       ELSE m.image,
                       0, TRUE)
        ELSE Failure("not_found",
                     CASE m.h = "instagram" ->
                             "Could not find media in this Instagram post"
                       [] m.h = "threads" ->
                             "Could not find media in this Threads post"
                       [] OTHER -> "Could not find media in this Pinterest pin")

\* SpotifyExtractor._extract_episode from audio_url on (spotify.py:123-146).
SpotifyMedia(m) ==
    IF m.audio = ""
    THEN Failure("not_found",
                 "Could not extract audio from this podcast episode. "
                     \o "Spotify may require authentication for this content.")
    ELSE MediaInfo(NormTitle("spotify", 1, m.title), m.audio, 0, TRUE)

\* What the upstream answers.  Titles of these lengths, made of one
\* character; renditions of these heights.
TitleLengths == {1, 77, 80, 81, 200}
Titles == {[i \in 1..n |-> "a"] : n \in TitleLengths}
ShortTitle == <<"a">>

MaxRenditions == 2

Renditions(muxed) ==
    [muxed : {muxed},
     height : IF muxed THEN {0, 480, 1080} ELSE {0, 720, 1080},
     url : {"", "u"}]

RECURSIVE Lists(_, _)
\* The sequences of at most n elements of S.
Lists(S, n) ==
    IF n = 0 THEN {<<>>}
    ELSE Lists(S, n - 1) \cup {Append(l, x) : l \in Lists(S, n - 1), x \in S}

\* The info dicts of the yt-dlp strategies.
InfoInputs(paths) ==
    {[path |-> "info", h |-> p[1], k |-> p[2], title |-> t, url |-> u,
      height |-> 720] :
        p \in paths, t \in Titles,
        u \in {<<>>, <<"">>, <<"https://cdn.example/v.mp4">>}}

\* Player responses: each status with each reason, and for status OK the
\* lists of at most MaxRenditions renditions, or each title.
Reasons ==
    {<<>>, <<"Video unavailable">>, <<"This video is private">>,
     <<"Sign in to confirm your age">>, <<"Sign in to confirm you are not a bot">>,
     <<"Video not found">>, <<"Playback failed">>}

PlayerInputs(n) ==
    {[path |-> "player", status |-> st, reason |-> r, formats |-> f,
      adaptive |-> a, title |-> ShortTitle] :
        st \in {"OK"}, r \in {<<>>},
        f \in Lists(Renditions(TRUE), n), a \in Lists(Renditions(FALSE), n)}
    \cup
    {[path |-> "player", status |-> st, reason |-> r, formats |-> f,
      adaptive |-> <<>>, title |-> t] :
        st \in {"OK", "LOGIN_REQUIRED", "UNPLAYABLE", "ERROR",
                 "LIVE_STREAM_OFFLINE"},
        r \in Reasons, t \in Titles,
        f \in {<<[muxed |-> TRUE, height |-> 720, url |-> "u"]>>}}

\* Reddit posts.
FallbackUrls ==
    {"", "?source=fallback",
     "https://v.redd.it/a1/DASH_720.mp4?source=fallback"}

RedditInputs(ts) ==
    {[path |-> "reddit", title |-> t, isVideo |-> v, fallback |-> f,
      link |-> l, gallery |-> g, crossIsVideo |-> cv, crossFallback |-> cfb,
      height |-> 720] :
        t \in ts, v \in BOOLEAN, f \in FallbackUrls,
        l \in {"", "https://i.redd.it/a1.png", "https://i.redd.it/a1",
                "https://example.com/a1"},
        g \in {"", "https://preview.redd.it/a1.jpg?width=640&amp;s=b2"},
        cv \in BOOLEAN, cfb \in FallbackUrls}

\* Dailymotion metadata: streams under three of the keys.
DmStreamSet ==
    [type : {"video/mp4", "application/x-mpegURL"}, url : {"", "u"}]

DailymotionInputs(n) ==
    {[path |-> "dailymotion", title |-> ShortTitle, error |-> <<>>,
      qualities |-> [key \in {DmKeys[i] : i \in 1..Len(DmKeys)} |->
                        CASE key = "1080" -> hi
                          [] key = "480" -> lo
                          [] key = "auto" -> auto
                          [] OTHER -> <<>>]] :
        hi \in Lists(DmStreamSet, 1), lo \in Lists(DmStreamSet, 1),
        auto \in Lists(DmStreamSet, n)}
    \cup
    {[path |-> "dailymotion", title |-> t, error |-> e,
      qualities |-> [key \in {DmKeys[i] : i \in 1..Len(DmKeys)} |->
                        IF key = "720"
                        THEN <<[type |-> "video/mp4", url |-> "u"]>>
                        ELSE <<>>]] :
        t \in Titles,
        e \in {<<>>, <<"Video not found">>, <<"Explicit content">>,
                <<"Private video">>, <<"Rejected">>}}

\* Pages with og:meta tags, and Spotify embed pages.
ScrapeInputs(ts) ==
    {[path |-> "scrape", h |-> p[1], k |-> p[2], title |-> t, video |-> v,
      image |-> i] :
        p \in {<<"instagram", 2>>, <<"threads", 2>>, <<"pinterest", 1>>},
        t \in ts, v \in {"", "https://cdn.example/v.mp4"},
        i \in {"", "https://i.pinimg.com/236x/a1.jpg"}}

SpotifyInputs(ts) ==
    {[path |-> "spotify", title |-> t, audio |-> a] :
        t \in ts, a \in {"", "https://p.scdn.co/mp3-preview/a1"}}

offNorm == <<callVars, rateVars, netVars, routeVars, classVars, pool, router, dl>>

NormInit ==
    /\ CallIdle
    /\ cf = FALSE
    /\ RateInit
    /\ env = [url |-> FALSE, secret |-> FALSE, curl |-> TRUE]
    /\ NetIdle
    /\ RouteIdle
    /\ ClassIdle
    /\ PoolIdle
    /\ RouterIdle
    /\ DlIdle
    /\ meta \in InfoInputs(InfoPaths) \cup PlayerInputs(MaxRenditions)
                  \cup RedditInputs(Titles) \cup DailymotionInputs(MaxRenditions)
                  \cup ScrapeInputs(Titles) \cup SpotifyInputs(Titles)
    /\ media = NoMedia

\* The strategy that received meta makes its answer of it.
Convert(path, answer) ==
    /\ media = NoMedia
    /\ meta.path = path
    /\ media' = answer
    /\ UNCHANGED <<meta, offNorm>>

InfoToMedia == meta.path = "info" /\ Convert("info", InfoMedia(meta))
PlayerResponseToMedia ==
    meta.path = "player" /\ Convert("player", PlayerMedia(meta))
RedditDirect == meta.path = "reddit" /\ Convert("reddit", RedditMedia(meta))
DailymotionDirect ==
    meta.path = "dailymotion"
        /\ Convert("dailymotion", DailymotionMedia(meta))
ScrapePage == meta.path = "scrape" /\ Convert("scrape", ScrapeMedia(meta))
SpotifyEpisode ==
    meta.path = "spotify" /\ Convert("spotify", SpotifyMedia(meta))

NormNext ==
    \/ InfoToMedia
    \/ PlayerResponseToMedia
    \/ RedditDirect
    \/ DailymotionDirect
    \/ ScrapePage
    \/ SpotifyEpisode

SpecNormalize == NormInit /\ [][NormNext]_vars

----------------------------------------------------------------------------
(* Extract calls of one process sharing the executor of asyncio.to_thread  *)
(* (SpecPool).  No handler and no line of main.py sets an executor, so    *)
(* every to_thread of the process submits to the event loop's default      *)
(* ThreadPoolExecutor: a job starts when fewer than PoolSize threads are   *)
(* busy and otherwise waits in the executor's queue.  wait_for cancels the *)
(* future it awaits: a queued job is dropped, a running one runs on.       *)

MaxExtracts == 3
PoolSize == 2

Extracts == 1..MaxExtracts

\* st: the call ("idle", "wait" for its to_thread, "done"); job: its
\* extraction ("-", "queued", "running", "finished", "cancelled"); out: the
\* way the strategy ended.
IdleExtract == [st |-> "idle", job |-> "-", out |-> "-"]

\* The threads of the executor that are executing a job.
Busy(call) == {c \in Extracts : call[c].job = "running"}

\* The thread that became free takes the job at the head of the queue.
Dequeue(call, queue) ==
    IF queue = <<>> THEN [call |-> call, queue |-> queue]
    ELSE [call |-> [call EXCEPT ![Head(queue)].job = "running"],
          queue |-> Tail(queue)]

offPool == <<callVars, rateVars, netVars, routeVars, classVars, normVars, router, dl>>

PoolInit ==
    /\ CallIdle
    /\ cf = FALSE
    /\ RateInit
    /\ env = [url |-> FALSE, secret |-> FALSE, curl |-> TRUE]
    /\ NetIdle
    /\ RouteIdle
    /\ ClassIdle
    /\ NormIdle
    /\ pool = [call |-> [c \in Extracts |-> IdleExtract], queue |-> <<>>]
    /\ RouterIdle
    /\ DlIdle

\* Call c reaches await asyncio.wait_for(asyncio.to_thread(...)).
Submit(c) ==
    /\ pool.call[c].st = "idle"
    /\ pool' =
          IF Cardinality(Busy(pool.call)) < PoolSize
          THEN [pool EXCEPT !.call[c] = [st |-> "wait", job |-> "running",
                                         out |-> "-"]]
          ELSE [call |-> [pool.call EXCEPT ![c] =
                              [st |-> "wait", job |-> "queued", out |-> "-"]],
                queue |-> Append(pool.queue, c)]
    /\ UNCHANGED offPool

\* The extraction of call c returns or raises in its thread; the call, if
\* it still awaits it, goes on with what it gave.
JobEnds(c, o) ==
    /\ pool.call[c].job = "running"
    /\ LET ended == [pool.call EXCEPT
                        ![c] = IF pool.call[c].st = "wait"
                               THEN [st |-> "done", job |-> "finished",
                                     out |-> o]
                               ELSE [pool.call[c] EXCEPT !.job = "finished"]]
       IN  pool' = Dequeue(ended, pool.queue)
    /\ UNCHANGED offPool

\* The wait_for of call c times out.
PoolTimeout(c) ==
    /\ pool.call[c].st = "wait"
    /\ pool' =
          IF pool.call[c].job = "queued"
          THEN [call |-> [pool.call EXCEPT ![c] =
                              [st |-> "done", job |-> "cancelled",
                               out |-> "timeout"]],
                queue |-> SelectSeq(pool.queue, LAMBDA x : x # c)]
          ELSE [pool EXCEPT !.call[c].st = "done",
                            !.call[c].out = "timeout"]
    /\ UNCHANGED offPool

PoolNext ==
    \/ \E c \in Extracts : Submit(c)
    \/ \E c \in Extracts, o \in {"ok", "failed"} : JobEnds(c, o)
    \/ \E c \in Extracts : PoolTimeout(c)

SpecPool == PoolInit /\ [][PoolNext]_vars

----------------------------------------------------------------------------
(* The router under a sequence of calls (SpecRegistry).                    *)

MaxRouterCalls == 3

RECURSIVE ResolveIn(_, _)
\* The loop of ExtractorRouter.resolve over the list the router holds.
ResolveIn(reg, u) ==
    IF reg = <<>> THEN "none"
    ELSE IF Matches(Head(reg), u) THEN Head(reg)
    ELSE ResolveIn(Tail(reg), u)

\* AfterResolve, were the handler found moved to the head of the list.
AfterResolveMovesToFront(reg, h) ==
    IF h = "none" THEN reg
    ELSE <<h>> \o SelectSeq(reg, LAMBDA x : x # h)

\* self._extractors after resolve returned h: the loop and matches read,
\* and nothing is assigned.
AfterResolve(reg, h) == reg

\* supported_platforms: a new list of each handler's platform_name.
PlatformNames(reg) == [i \in 1..Len(reg) |-> reg[i]]

\* Urls of the calls: those of SampleUrls, a url of the handler registered
\* first, and one of the handler registered last followed by more text.
RouterUrls ==
    SampleUrls
        \cup {Instance(PatternTable["dailymotion"][1], TRUE),
              <<"http", "s", ":", "/", "/", "youtu", ".", "be", "/", "abc",
                "/", "abc">>}

offRegistry ==
    <<callVars, rateVars, netVars, routeVars, classVars, normVars, pool, dl>>

RegistryInit ==
    /\ CallIdle
    /\ cf = FALSE
    /\ RateInit
    /\ env = [url |-> FALSE, secret |-> FALSE, curl |-> TRUE]
    /\ NetIdle
    /\ RouteIdle
    /\ ClassIdle
    /\ NormIdle
    /\ PoolIdle
    /\ RouterIdle
    /\ DlIdle

\* A call of the router returned got; the list is what the call left.
Called(op, u, got, reg) ==
    /\ Len(router.log) < MaxRouterCalls
    /\ router' = [extractors |-> reg,
                  log |-> Append(router.log,
                                 [op |-> op, url |-> u, got |-> got])]
    /\ UNCHANGED offRegistry

\* router.resolve(u).
RouterResolve(u) ==
    LET h == ResolveIn(router.extractors, u)
    IN  Called("resolve", u, <<h>>, AfterResolve(router.extractors, h))

\* router.supported_platforms.
RouterSupported ==
    Called("supported_platforms", <<>>, PlatformNames(router.extractors),
           router.extractors)

\* main.extract(u): resolve, then supported_platforms for the error when
\* no handler was found, else the handler's extract, which holds no
\* reference to the router.
RouterExtract(u) ==
    LET h == ResolveIn(router.extractors, u)
    IN  Called("extract", u,
               IF h = "none" THEN PlatformNames(router.extractors)
               ELSE <<h>>,
               AfterResolve(router.extractors, h))

RegistryNext ==
    \/ \E u \in RouterUrls : RouterResolve(u)
    \/ RouterSupported
    \/ \E u \in RouterUrls : RouterExtract(u)

SpecRegistry == RegistryInit /\ [][RegistryNext]_vars

----------------------------------------------------------------------------
(* One proxy_download request (SpecDownload): is_allowed_domain on the     *)
(* url's hostname, then stream_proxy, the upstream's content being chunks  *)
(* 1..n.                                                                   *)

ALLOWED_DOMAINS ==
    {"googlevideo.com", "ytimg.com", "cdninstagram.com", "instagram.com",
     "fbcdn.net", "scontent.xx.fbcdn.net", "video.xx.fbcdn.net",
     "pinimg.com", "tiktokcdn.com", "tiktokcdn-us.com", "musical.ly",
     "tiktokv.com", "tiktokcdn-eu.com", "twimg.com", "video.twimg.com",
     "pbs.twimg.com", "ton.twitter.com", "abs.twimg.com", "redd.it",
     "redditmedia.com", "redgifs.com", "preview.redd.it", "v.redd.it",
     "cf-st.sc", "snap-storage-cdn.l.google.com", "bolt-gcdn.sc",
     "threads.net", "clips-media-assets2.twitch.tv", "vod-secure.twitch.tv",
     "production.assets.clips.twitchcdn.net", "usher.ttvnw.net",
     "media.licdn.com", "dms.licdn.com",
     "audio-ak-spotify-com.akamaized.net",
     "audio4-ak-spotify-com.akamaized.net", "akamaized.net",
     "dailymotion.com", "dmcdn.net", "proxy-im.dailymotion.com"}

\* is_allowed_domain, on urlparse(url).hostname.
IsAllowedDomain(hostname) ==
    \E d \in ALLOWED_DOMAINS : EndsWith(hostname, d)

MaxChunks == 2

\* Hostnames of the urls asked for: none, an unrelated one, and for each
\* allowed domain the domain, a subdomain of it, a name that ends with its
\* characters, and a name that holds it elsewhere.
DownloadHosts ==
    {"", "example.com"}
        \cup UNION {{d, "cdn." \o d, "evil" \o d, d \o ".example.com"} :
                        d \in ALLOWED_DOMAINS}

offDownload ==
    <<callVars, rateVars, req, routeVars, classVars, normVars, pool, router>>

DownloadInit ==
    /\ CallIdle
    /\ cf = FALSE
    /\ RateInit
    /\ \E c \in BOOLEAN : env = [url |-> FALSE, secret |-> FALSE, curl |-> c]
    /\ NetIdle
    /\ RouteIdle
    /\ ClassIdle
    /\ NormIdle
    /\ PoolIdle
    /\ RouterIdle
    /\ \E h \in DownloadHosts, n \in 1..MaxChunks :
          dl = [NoDownload EXCEPT !.st = "asked", !.host = h, !.n = n]

\* main.proxy_download: 403 for a url is_allowed_domain refuses, else a
\* StreamingResponse over stream_proxy(url), which starts with curl_cffi
\* when it is there.
ProxyDownload ==
    /\ dl.st = "asked"
    /\ dl' = IF IsAllowedDomain(dl.host)
             THEN [dl EXCEPT !.st = "stream",
                             !.via = IF env.curl THEN "curl" ELSE "httpx"]
             ELSE [dl EXCEPT !.st = "refused"]
    /\ UNCHANGED <<env, offDownload>>

\* The transport in use gives the next chunk, which stream_proxy yields.
StreamYield ==
    /\ dl.st = "stream"
    /\ dl.pos < dl.n
    /\ dl' = [dl EXCEPT !.pos = @ + 1, !.sent = Append(@, dl.pos + 1)]
    /\ UNCHANGED <<env, offDownload>>

\* The transport in use has given the last chunk.
StreamEnds ==
    /\ dl.st = "stream"
    /\ dl.pos = dl.n
    /\ dl' = [dl EXCEPT !.st = "done"]
    /\ UNCHANGED <<env, offDownload>>

\* The transport in use raises.  What curl_cffi raises is passed over and
\* the httpx client requests the url anew; what httpx raises ends the
\* generator.
StreamRaises ==
    /\ dl.st = "stream"
    /\ dl' = IF dl.via = "curl"
             THEN [dl EXCEPT !.via = "httpx", !.pos = 0]
             ELSE [dl EXCEPT !.st = "failed"]
    /\ UNCHANGED <<env, offDownload>>

DownloadNext ==
    \/ ProxyDownload
    \/ StreamYield
    \/ StreamEnds
    \/ StreamRaises

SpecDownload == DownloadInit /\ [][DownloadNext]_vars

----------------------------------------------------------------------------
(* Properties of one extract call (Spec).                                  *)

LastInvoked == invoked[Len(invoked)]

\* No-result and the failures the chain is meant to absorb.
TransientOrNone ==
    {"none", "upstream_error", "extraction_failed", "exception", "bad_info"}

\* C1: once a strategy has ended with, or has detected in a sub-step, a
\* permanent kind, no later strategy of the call is invoked.
C1_PermanentHaltsChain ==
    \A i \in 1..Len(invoked) :
        (\E kind \in Permanent : <<invoked[i], kind>> \in produced)
            => i = Len(invoked)

\* C2: when a strategy of the call produced a permanent kind and the hard
\* timeout did not fire, the caller receives a kind that was produced.
C2_PermanentKindReachesCaller ==
    (pc = "done" /\ ~hardFired /\ produced # {})
        => \E p \in produced : result.kind = p[2]

\* The chain ran to its last strategy and every strategy ended with no
\* result or a transient failure: no success, permanent kind or timeout.
Exhausted ==
    /\ pc = "done"
    /\ ~hardFired
    /\ Len(invoked) > 0
    /\ NextStrategy(handler, cf, LastInvoked) = 0
    /\ produced = {}
    /\ \A i \in 1..Len(invoked) : how[invoked[i]] \in TransientOrNone

\* C3 as claimed: an exhausted chain always gives extraction-failed.
C3_ExhaustedGivesFailed == Exhausted => result.kind = "extraction_failed"

\* C3 as amended: an exhausted chain gives extraction-failed, except that
\* an upstream-unreachable failure of the last strategy reaches the caller
\* as upstream-unreachable.
C3_ExhaustedGivesFailedOrUpstream ==
    Exhausted =>
        result.kind = IF how[LastInvoked] = "upstream_error"
                      THEN "upstream_error" ELSE "extraction_failed"

C3_Witness ==
    /\ Exhausted
    /\ handler = "reddit"
    /\ how[1] = "none"
    /\ how[2] = "upstream_error"
    /\ result.kind = "upstream_error"

\* C4: the step in which a non-final strategy ends with no result or a
\* transient failure invokes the next strategy of the handler's order.
C4_TransientAdvances ==
    [][\A k \in 1..3 :
         (/\ pc = "run" /\ cur = k
          /\ how[k] = "-" /\ how'[k] \in TransientOrNone
          /\ NextStrategy(handler, cf, k) # 0)
         => (/\ pc' = "run"
             /\ cur' = NextStrategy(handler, cf, k)
             /\ invoked' = Append(invoked, cur')
             /\ result' = result)]_vars

C4_Witness ==
    /\ pc = "run"
    /\ handler = "dailymotion"
    /\ how[1] = "exception"
    /\ cur = 2
    /\ invoked = <<1, 2>>

\* C5: the step in which a non-final strategy hits its soft timeout before
\* the hard timeout is due invokes the next strategy; the call goes on.
C5_SoftTimeoutAdvances ==
    [][\A k \in 1..3 :
         (/\ pc = "run" /\ cur = k
          /\ how[k] = "-" /\ how'[k] = "soft_timeout"
          /\ NextStrategy(handler, cf, k) # 0
          /\ clock < EXTRACT_TIMEOUT)
         => (/\ pc' = "run"
             /\ cur' = NextStrategy(handler, cf, k))]_vars

\* C6: once the hard timeout has fired the caller has timeout, no strategy
\* is invoked any more and nothing a live worker produces changes the answer.
C6_HardTimeoutOverrides ==
    /\ [](hardFired => (pc = "done" /\ result.kind = "timeout"))
    /\ [][hardFired => (invoked' = invoked /\ result' = result)]_vars

\* The hard timeout fired on an off-loaded strategy, whose thread ended later.
C6_Witness ==
    /\ hardFired
    /\ handler = "twitter"
    /\ how[1] = "cancelled"
    /\ workers = {}
    /\ result.kind = "timeout"

\* C7: a call in which every invoked strategy timed out ends with timeout.
C7_AllTimedOutGivesTimeout ==
    (/\ pc = "done"
     /\ Len(invoked) > 0
     /\ \A i \in 1..Len(invoked) :
            how[invoked[i]] \in {"soft_timeout", "cancelled"})
        => result.kind = "timeout"

\* Every strategy of the YouTube chain hit its own timeout.
C7_Witness ==
    /\ pc = "done"
    /\ handler = "youtube"
    /\ invoked = <<1, 3>>
    /\ how[1] = "soft_timeout"
    /\ how[3] = "soft_timeout"
    /\ ~hardFired
    /\ result.kind = "timeout"

\* C8: a strategy's success ends the call with that strategy's result, no
\* strategy being invoked after it; and a result comes from nowhere else.
C8_SuccessShortCircuits ==
    /\ \A k \in 1..3 :
          how[k] = "ok" =>
              (/\ pc = "done"
               /\ result = [kind |-> "ok", by |-> k, status |-> 200]
               /\ LastInvoked = k)
    /\ result.kind = "ok" => (result.by \in 1..3 /\ how[result.by] = "ok")

\* The second strategy succeeded after the first gave no result.
C8_Witness ==
    /\ handler = "youtube"
    /\ invoked = <<1, 2>>
    /\ how[2] = "ok"
    /\ result = [kind |-> "ok", by |-> 2, status |-> 200]

\* The strategies executing now: the awaited one and the live threads.
Executing == workers \cup (IF pc = "run" THEN {cur} ELSE {})

\* C9: at most one strategy of the call is executing at any moment.
C9_OneStrategyAtATime == Cardinality(Executing) <= 1

----------------------------------------------------------------------------
(* Properties of the rate limiter (SpecRate).                              *)

\* C10: two consecutive timestamps recorded for one host are at least the
\* minimum interval apart.
C10_MinGapPerHost ==
    \A h \in Hosts :
        \A i \in 1..(Len(stamps[h]) - 1) :
            stamps[h][i + 1] - stamps[h][i] >= MIN_REQUEST_INTERVAL

\* C11: between a call's read of a host's entry and its write of it (the
\* call is asleep in between), no other call writes that entry or reads it.
C11_ReadWriteAtomic ==
    [][\A t \in Tasks :
         (task[t].st = "sleep" /\ task'[t].st = "sleep")
            => /\ last'[task[t].host] = last[task[t].host]
               /\ \A u \in Tasks \ {t} :
                     (task[u].st = "idle" /\ task'[u].st # "idle"
                      /\ task'[u].rl)
                        => task'[u].host # task[t].host]_vars

----------------------------------------------------------------------------
(* Properties of outbound requests (SpecFetch).                            *)

\* C12: every outbound request, by whichever path, has updated the rate
\* table entry of its host.
C12_EveryRequestStamped == req.st # "idle" => req.stamped

\* The transports of a stealth fetch, in the order the spec gives them.
TransportOrder == <<"profile", "fallback", "plain">>

\* The transports tried so far are the first of order s, each but the last
\* having failed; a response is that of the last one tried, which did not
\* fail; and the fetch fails exactly when the plain transport has failed.
TriedInOrder(s) ==
    /\ Len(req.tried) \in 1..Len(s)
    /\ req.tried = SubSeq(s, 1, Len(req.tried))
    /\ \A i \in 1..(Len(req.tried) - 1) : req.tried[i] \in req.failed
    /\ req.failed \subseteq {req.tried[i] : i \in 1..Len(req.tried)}
    /\ req.st = "done" => req.tried[Len(req.tried)] \notin req.failed
    /\ req.st = "failed" <=> "plain" \in req.failed

\* C13 as claimed: every stealth fetch tries profile, fallback, plain.
C13_TransportOrder ==
    (req.path = "stealth" /\ req.st # "idle") => TriedInOrder(TransportOrder)

\* C13 as amended: with curl_cffi a stealth fetch tries the profile's
\* fingerprint, then the safe one, then the plain transport, each once and
\* only after the one before failed; without curl_cffi it tries the plain
\* transport alone.  The first success is the response, and the fetch fails
\* only when the plain transport fails.
C13_TransportOrderWithCurl ==
    (req.path = "stealth" /\ req.st # "idle") =>
        TriedInOrder(IF env.curl THEN TransportOrder ELSE <<"plain">>)

\* Both fingerprints failed and the plain transport answered.
C13_Witness ==
    /\ env.curl
    /\ req.path = "stealth"
    /\ req.st = "done"
    /\ req.tried = TransportOrder
    /\ req.failed = {"profile", "fallback"}

\* C14: the profile-derived headers of a stealth request all come from one
\* profile.
C14_SingleProfileHeaders ==
    (req.path = "stealth" /\ req.st # "idle") =>
        Cardinality({req.hdr[n] : n \in HeaderNames} \ {0}) <= 1

\* C15: every proxy_fetch of the process is tunnelled if and only if both
\* the endpoint url and its secret are configured, and the configuration
\* never changes while the process runs.
C15_RoutePerDeployment ==
    /\ [](req.path = "proxy" =>
            req.route = IF env.url /\ env.secret THEN "tunnel" ELSE "direct")
    /\ [][env' = env]_vars

\* A tunnelled proxy_fetch was answered.
C15_Witness ==
    /\ req.path = "proxy"
    /\ req.route = "tunnel"
    /\ req.st = "done"

----------------------------------------------------------------------------
(* Properties of the router (SpecRoute).                                   *)

\* Handler h declares a pattern that matches u from its first character.
HasPatternFromStart(h, u) ==
    \E i \in 1..Len(PatternTable[h]) : Match(PatternTable[h][i], u)

\* C16: resolve returns the first handler, in registration order, with a
\* pattern matching the url from its start, and none exactly when no
\* registered handler has one.
C16_FirstRegisteredMatch ==
    resolved # "?" =>
        IF \E i \in 1..Len(Registered) :
              HasPatternFromStart(Registered[i], url)
        THEN \E i \in 1..Len(Registered) :
                /\ resolved = Registered[i]
                /\ HasPatternFromStart(Registered[i], url)
                /\ \A j \in 1..(i - 1) :
                      ~HasPatternFromStart(Registered[j], url)
        ELSE resolved = "none"

\* A url of the handler registered last, followed by more text.
C16_Witness ==
    /\ resolved = "youtube"
    /\ url = <<"http", "s", ":", "/", "/", "youtu", ".", "be", "/", "abc",
               "/", "abc">>

\* C17: a url matching a pattern that handler h declares resolves to h, and
\* a url matching no declared pattern resolves to none.
C17_PatternResolvesToOwner ==
    resolved # "?" =>
        /\ \A h \in Handlers :
              \A i \in 1..Len(PatternTable[h]) :
                  Match(PatternTable[h][i], url) => resolved = h
        /\ (\A h \in Handlers : ~HasPatternFromStart(h, url))
              => resolved = "none"

\* A url that only Pinterest's any-subdomain pattern matches.
C17_Witness ==
    /\ resolved = "pinterest"
    /\ Match(PatternTable["pinterest"][2], url)
    /\ ~Match(PatternTable["pinterest"][1], url)

----------------------------------------------------------------------------
(* The url no handler matches (Spec).                                      *)

\* C18: when resolve finds no handler the caller receives
\* unsupported-source with the names of all registered handlers, and no
\* handler's extract is invoked; nothing else is answered that way.
C18_UnsupportedListsAll ==
    /\ (pc = "done" /\ handler = "-") =>
          /\ result.kind = "unsupported_platform"
          /\ {result.supported[i] : i \in 1..Len(result.supported)} = Handlers
          /\ Len(result.supported) = Cardinality(Handlers)
          /\ invoked = <<>>
          /\ workers = {}
    /\ result.kind = "unsupported_platform" => handler = "-"

C18_Witness ==
    /\ pc = "done"
    /\ handler = "-"
    /\ result.kind = "unsupported_platform"

----------------------------------------------------------------------------
(* Properties of the classifier (SpecClassify).                            *)

\* Words by which a diagnostic tells a geographic restriction.
GeoKeywords == {"your country", "your region", "geo restrict"}

\* C19: the kind raised is that of the first rule matching the diagnostic,
\* in the order not-found, age-restricted, login-required, geo-blocked,
\* upstream-unreachable, and extraction-failed when no rule matches.
C19_RuleOrder ==
    raised # "-" =>
        raised =
           (LET e == Lower(msg)
            IN  IF HasAny(NotFoundKeywords, e) THEN "not_found"
                ELSE IF HasAny(AgeKeywords, e) THEN "age_restricted"
                ELSE IF HasAny(LoginKeywords, e) THEN "login_required"
                ELSE IF HasAny(GeoKeywords, e) THEN "geo_blocked"
                ELSE IF HasAny(NetworkKeywords, e) THEN "upstream_error"
                ELSE "extraction_failed")

\* C20: a diagnostic containing a not-found keyword is classified
\* not-found, whatever network keywords it also contains.
C20_NotFoundBeforeNetwork ==
    (raised # "-" /\ HasAny(NotFoundKeywords, Lower(msg)))
        => raised = "not_found"

\* A private video reported together with a refused connection.
C20_Witness ==
    /\ raised = "not_found"
    /\ Contains("private", Lower(msg))
    /\ Contains("connection refused", Lower(msg))

----------------------------------------------------------------------------
(* The url without an identifier (Spec).                                   *)

\* C23: a call on a url in which the handler's identifier pattern finds
\* nothing ends with invalid_url, and ends before any strategy, hence any
\* network call, of the handler is invoked.
C23_NoIdIsInvalidInput ==
    ~hasId => (pc = "done" /\ result.kind = "invalid_url" /\ invoked = <<>>)

----------------------------------------------------------------------------
(* The status of a failure (Spec).                                         *)

\* C27: every failure the caller receives carries the status of its kind,
\* the status_code of the exception class of that error_code, whichever
\* path of main.extract answered.
C27_OneStatusPerKind ==
    (pc = "done" /\ result.kind # "ok")
        => result.status = StatusCode(result.kind)

----------------------------------------------------------------------------
(* Termination of the call (SpecLive).                                     *)

\* The error_code of each ExtractionError subclass (exceptions.py:11-54).
ErrorKinds ==
    {"invalid_url", "unsupported_platform", "not_found", "age_restricted",
     "geo_blocked", "login_required", "upstream_error", "extraction_failed",
     "timeout"}

\* C29: every call that was handed to a handler ends; it ends no later
\* than EXTRACT_TIMEOUT seconds after it began, with a result or one of the
\* nine kinds, and its outcome never changes afterwards.
C29_CallCompletes ==
    /\ (pc = "run") ~> (pc = "done")
    /\ [](pc = "done" =>
            /\ result.kind \in ErrorKinds \cup {"ok"}
            /\ clock <= EXTRACT_TIMEOUT)
    /\ [][pc = "done" => (pc' = "done" /\ result' = result)]_vars

\* The upstream never answered: the hard timeout ended the call while the
\* thread of the only strategy was still running.
C29_Witness ==
    /\ pc = "done"
    /\ handler = "twitter"
    /\ clock = EXTRACT_TIMEOUT
    /\ hardFired
    /\ workers = {1}
    /\ result.kind = "timeout"

\* The invocations made so far, each with the kind it raised.
Verdicts == IF raised = "-" THEN past ELSE Append(past, <<msg, raised>>)

----------------------------------------------------------------------------
(* Properties of the answers made of upstream metadata (SpecNormalize).    *)

\* C21: the download url of every MediaInfo a strategy returns is not
\* empty.
C21_DownloadUrlNotEmpty == media.out = "ok" => media.url # ""

\* C22: the title of every MediaInfo is the upstream's title when that has
\* at most 80 characters, and otherwise has exactly 80 characters, the last
\* of them the ellipsis.
C22_TitleCutTo80 ==
    media.out = "ok" =>
        IF Len(meta.title) > 80
        THEN Len(media.title) = 80 /\ media.title[80] = Ellipsis
        ELSE media.title = meta.title

\* The renditions of list l that have a url.
WithUrl(l) == {i \in 1..Len(l) : l[i].url # ""}

\* The greatest height among the renditions of l that have a url.
MaxHeight(l) ==
    CHOOSE x \in {l[i].height : i \in WithUrl(l)} :
        \A i \in WithUrl(l) : l[i].height <= x

\* A player response with status OK was converted.
PlayerConverted ==
    meta.path = "player" /\ meta.status = "OK" /\ media # NoMedia

\* C24: when a player response offers a muxed rendition with a url, the
\* rendition selected is a muxed one, of the greatest height among the
\* muxed renditions with a url, whatever the adaptive renditions are.
C24_MuxedPreferred ==
    (PlayerConverted /\ WithUrl(meta.formats) # {})
        => /\ media.out = "ok"
           /\ media.muxed
           /\ media.url # ""
           /\ media.height = MaxHeight(meta.formats)

\* Muxed 480 and 1080, adaptive 720 and 1080: the muxed 1080 is selected.
C24_Witness ==
    /\ PlayerConverted
    /\ Len(meta.formats) = 2 /\ Len(meta.adaptive) = 2
    /\ WithUrl(meta.formats) = {1, 2} /\ WithUrl(meta.adaptive) = {1, 2}
    /\ meta.formats[1].height = 480 /\ meta.formats[2].height = 1080
    /\ meta.adaptive[1].height = 720 /\ meta.adaptive[2].height = 1080
    /\ media.out = "ok" /\ media.muxed /\ media.height = 1080

\* With no muxed rendition that has a url, the player response gives the
\* adaptive rendition of the greatest height among those with a url, and
\* no result when no rendition has a url.
PlayerStreamOnly ==
    (PlayerConverted /\ WithUrl(meta.formats) = {})
        => IF WithUrl(meta.adaptive) = {} THEN media.out = "none"
           ELSE /\ media.out = "ok"
                /\ ~media.muxed
                /\ media.url # ""
                /\ media.height = MaxHeight(meta.adaptive)

\* The streams of the Dailymotion metadata that are not progressive mp4.
DmStreamOnly ==
    SelectSeq(DmStreams(meta.qualities, 1),
              LAMBDA f : ~Contains("video/mp4", f.type))

\* The same of the Dailymotion metadata, whose muxed renditions are the
\* progressive mp4 streams.
DailymotionStreamOnly ==
    (/\ meta.path = "dailymotion" /\ meta.error = <<>> /\ media # NoMedia
     /\ \A f \in {DmStreams(meta.qualities, 1)[i] :
                      i \in 1..Len(DmStreams(meta.qualities, 1))} :
            Contains("video/mp4", f.type) => f.url = "")
        => IF WithUrl(DmStreamOnly) = {} THEN media.out = "none"
           ELSE /\ media.out = "ok"
                /\ ~media.muxed
                /\ media.url # ""
                /\ media.height = MaxHeight(DmStreamOnly)

\* C25: when no muxed rendition has a url, the rendition selected is the
\* stream-only rendition of the greatest height among those with a url;
\* when no rendition has a url the strategy gives no result and no error.
C25_StreamOnlyFallback == PlayerStreamOnly /\ DailymotionStreamOnly

\* The free text of the upstream's answers that the conversions read.
ErrorTitles ==
    {<<"Video not found">>, <<"This video has been deleted">>,
     <<"Explicit content">>, <<"Private video">>, <<"Rejected">>}

\* C26: a failure made of an upstream answer has the message every other
\* run has that differs only in the upstream's free text (the reason of a
\* player response, the error title of Dailymotion metadata) and fails
\* with the same kind.
C26_MessageFromTemplates ==
    /\ (meta.path = "player" /\ media.out = "raise")
          => \A r \in Reasons :
                LET other == PlayerMedia([meta EXCEPT !.reason = r])
                IN  (other.out = "raise" /\ other.kind = media.kind)
                        => other.message = media.message
    /\ (meta.path = "dailymotion" /\ media.out = "raise")
          => \A e \in ErrorTitles :
                LET other == DailymotionMedia([meta EXCEPT !.error = e])
                IN  (other.out = "raise" /\ other.kind = media.kind)
                        => other.message = media.message

----------------------------------------------------------------------------
(* Properties of the shared executor (SpecPool).                           *)

\* C28: the extraction a call handed to to_thread is never kept from
\* starting by the extractions of other calls, those of calls that have
\* timed out included; no call times out with its extraction not begun.
C28_SiblingsNeverStalled ==
    \A c \in Extracts :
        /\ pool.call[c].st = "wait" => pool.call[c].job = "running"
        /\ pool.call[c].job # "cancelled"

----------------------------------------------------------------------------
(* The time limit of a strategy (Spec).                                    *)

Min(a, b) == IF a <= b THEN a ELSE b

\* C31: the limit under which the running strategy was started is the
\* smaller of what was left of EXTRACT_TIMEOUT when it started and its own
\* soft timeout; it is never more than what was left.
C31_LimitIsMinOfBudgets ==
    pc = "run" =>
        /\ SoftTimeout(handler, cur)
              = Min(EXTRACT_TIMEOUT - startAt, SoftTimeout(handler, cur))
        /\ SoftTimeout(handler, cur) <= EXTRACT_TIMEOUT - startAt

----------------------------------------------------------------------------
(* What the rate limiter reads and writes (SpecRate).                      *)

\* Call t dispatches its request in this step.
Dispatches(t) == task[t].st # "sent" /\ task'[t].st = "sent"

\* C32: a fetch with rate_limit false is dispatched as it begins, never
\* sleeps and leaves _domain_last_request as it was; a rate-limited fetch
\* has read its host's entry, and writes the present time to it in the
\* step that dispatches its request.
C32_UnlimitedBypassesTable ==
    /\ [](\A t \in Tasks : task[t].st = "sleep" => task[t].rl)
    /\ [][\A t \in Tasks :
            Dispatches(t) =>
                IF task'[t].rl
                THEN /\ last'[task'[t].host] = rnow
                     /\ \/ task[t].st = "sleep"
                        \/ rnow - last[task'[t].host] >= MIN_REQUEST_INTERVAL
                ELSE /\ task[t].st = "idle"
                     /\ last' = last]_vars

\* At the first instant, after a rate-limited request to host 1: a request
\* with rate_limit false to host 1 is out, one with rate_limit true waits.
C32_Witness ==
    /\ rnow = MIN_REQUEST_INTERVAL
    /\ task[1] = [st |-> "sent", host |-> 1, wake |-> 0, rl |-> TRUE]
    /\ task[2] = [st |-> "sent", host |-> 1, wake |-> 0, rl |-> FALSE]
    /\ task[3].st = "sleep" /\ task[3].host = 1
    /\ last[1] = rnow

\* C33: a step changes the entry of no host but the one of the request it
\* dispatches, and a rate-limited request's delay is told by its own
\* host's entry: none when MIN_REQUEST_INTERVAL has passed since, else the
\* rest of the interval and a jitter.
C33_OnlyOwnHost ==
    /\ [][\A h \in Hosts :
            last'[h] # last[h] =>
                \E t \in Tasks : Dispatches(t) /\ task'[t].host = h]_vars
    /\ [][\A t \in Tasks :
            (task[t].st = "idle" /\ task'[t].st # "idle" /\ task'[t].rl) =>
                LET own == last[task'[t].host]
                IN  IF rnow - own >= MIN_REQUEST_INTERVAL
                    THEN task'[t].st = "sent"
                    ELSE /\ task'[t].st = "sleep"
                         /\ task'[t].wake - (own + MIN_REQUEST_INTERVAL)
                               \in JitterMin..JitterMax]_vars

\* At the first instant: a rate-limited request to host 2 is out with
\* host 1's entry just written, and one to host 1 waits.
C33_Witness ==
    /\ rnow = MIN_REQUEST_INTERVAL
    /\ task[1] = [st |-> "sent", host |-> 1, wake |-> 0, rl |-> TRUE]
    /\ task[2] = [st |-> "sent", host |-> 2, wake |-> 0, rl |-> TRUE]
    /\ task[3].st = "sleep" /\ task[3].host = 1
    /\ last = [h \in Hosts |-> rnow]

----------------------------------------------------------------------------
(* The router is read-only (SpecRegistry).                                 *)

\* C34: after any sequence of resolve, supported_platforms and extract
\* calls the router holds the handlers it was constructed with, in that
\* order, and every resolve of a url, by itself or within extract, found
\* the handler the first resolve of that url would find.
C34_RegistryReadOnly ==
    /\ router.extractors = Registered
    /\ \A i \in 1..Len(router.log) :
          LET c == router.log[i]
          IN  /\ c.op = "resolve" => c.got = <<FirstMatch(1, c.url)>>
              /\ c.op = "supported_platforms" => c.got = SupportedPlatforms
              /\ c.op = "extract" =>
                    c.got = IF FirstMatch(1, c.url) = "none"
                            THEN SupportedPlatforms
                            ELSE <<FirstMatch(1, c.url)>>
    /\ \A i, j \in 1..Len(router.log) :
          (router.log[i].op = router.log[j].op
              /\ router.log[i].url = router.log[j].url)
            => router.log[i].got = router.log[j].got

\* The same url resolved before and after an extract of another url.
C34_Witness ==
    /\ Len(router.log) = 3
    /\ router.log[1].op = "resolve"
    /\ router.log[1].got = <<"youtube">>
    /\ router.log[2].op = "extract"
    /\ router.log[2].got = <<"dailymotion">>
    /\ router.log[3] = router.log[1]

----------------------------------------------------------------------------
(* Spotify's content types (Spec).                                         *)

----------------------------------------------------------------------------
(* Keywords within longer words (SpecClassify).                            *)

\* The characters of a word, in a lower-cased diagnostic.
WordChars ==
    {"a", "b", "c", "d", "e", "f", "g", "h", "i", "j", "k", "l", "m", "n",
     "o", "p", "q", "r", "s", "t", "u", "v", "w", "x", "y", "z", "0", "1",
     "2", "3", "4", "5", "6", "7", "8", "9", "_"}

\* kw stands in m with no character of a word next to it on either side.
ContainsWord(kw, m) ==
    \E i \in 1..(Len(m) - Len(kw) + 1) :
        LET j == i + Len(kw)
        IN  /\ SubSeq(m, i, j - 1) = kw
            /\ IF i = 1 THEN TRUE ELSE SubSeq(m, i - 1, i - 1) \notin WordChars
            /\ IF j > Len(m) THEN TRUE ELSE SubSeq(m, j, j) \notin WordChars

\* C36: a diagnostic with a network keyword in it, in which no not-found,
\* age or login keyword stands as a word, is classified upstream_error:
\* a keyword that is only part of a longer word does not count.
C36_SubstringsDoNotCount ==
    LET e == Lower(msg)
    IN  (/\ raised # "-"
         /\ HasAny(NetworkKeywords, e)
         /\ \A kw \in NotFoundKeywords \cup AgeKeywords \cup LoginKeywords :
               ~ContainsWord(kw, e))
            => raised = "upstream_error"

----------------------------------------------------------------------------
(* Exceptions that are no ExtractionError (Spec).                          *)

\* C37: when the handler let through an exception that is no
\* ExtractionError, the caller receives extraction_failed and no result;
\* no call ends with the exception itself.
C37_RawIsExtractionFailed ==
    /\ result.kind \in ErrorKinds \cup {"ok", "-"}
    /\ (/\ pc = "done"
        /\ ~hardFired
        /\ invoked # <<>>
        /\ HandlerOn(handler, cf, LastInvoked, how[LastInvoked]).kind = "raw")
          => (result.kind = "extraction_failed" /\ result.by = 0)

\* yt-dlp gave Twitter's handler an info dict without "url".
C37_Witness ==
    /\ pc = "done"
    /\ handler = "twitter"
    /\ how[1] = "bad_info"
    /\ ~NormalizeInTry("twitter", 1)
    /\ result.kind = "extraction_failed"
    /\ result.by = 0

----------------------------------------------------------------------------
(* Where the endpoint's secret goes (SpecFetch).                           *)

\* C38: a request carrying X-Proxy-Secret is addressed to the forwarding
\* endpoint, which is then configured, and is not redirected elsewhere;
\* the headers a tunnelled request hands on for the target never hold it.
C38_SecretOnlyToEndpoint ==
    /\ "X-Proxy-Secret" \in req.outer =>
          (req.to = "endpoint" /\ env.url /\ env.secret)
    /\ req.to \in {"host", "elsewhere"} => "X-Proxy-Secret" \notin req.outer
    /\ "X-Proxy-Secret" \notin req.inner

\* The InnerTube post of _extract_via_proxy was answered.
C38_Witness ==
    /\ req.path = "viaproxy"
    /\ req.st = "done"
    /\ req.to = "endpoint"
    /\ "X-Proxy-Secret" \in req.outer
    /\ "X-Goog-Visitor-Id" \in req.inner

----------------------------------------------------------------------------
(* The download proxy (SpecDownload).                                      *)

\* The hostname is domain d or a subdomain of it.
WithinDomain(hostname, d) == hostname = d \/ EndsWith(hostname, "." \o d)

\* C39: a download is streamed only from an allowed domain or a subdomain
\* of one, and is refused for every other hostname, one that ends with an
\* allowed domain's characters without a dot before them included.
C39_LabelBoundary ==
    dl.st \notin {"-", "asked"} =>
        (dl.st = "refused"
            <=> ~\E d \in ALLOWED_DOMAINS : WithinDomain(dl.host, d))

\* C40: what stream_proxy has yielded is the beginning of the upstream's
\* content, each chunk once and in order, and the whole of it when the
\* stream is done.
C40_ChunksOnceInOrder ==
    /\ \A i \in 1..Len(dl.sent) : dl.sent[i] = i
    /\ dl.st = "done" => Len(dl.sent) = dl.n

====
